---------------------------- MODULE Spec2Model ----------------------------
(***************************************************************************)
(* A model of the Docusaurus integration of docmost: the hierarchical      *)
(* exporter, the incremental sync engine, its history log and the sync     *)
(* scheduler of DocusaurusService (src/unnamed/part_003).                  *)
(*                                                                         *)
(* Strings that the code inspects character by character (titles, slugs,   *)
(* file names) are sequences of one-character strings.  A path is a        *)
(* sequence of non-empty segments.  Timestamps are readings of a logical   *)
(* clock: the start and the end of a run and every edit advance it, and    *)
(* the files a run writes carry the reading current at the write.          *)
(* Database queries are taken to succeed; the file system and the renderer *)
(* may fail, and a failure is an input of the step that meets it.          *)
(***************************************************************************)
EXTENDS Integers, Sequences, FiniteSets, TLC

VARIABLES
    \* ---- sync engine (Spec) ----
    settings,     \* workspaces.settings: docusaurusConfig, docusaurusSyncHistory, lastSyncResult
    jobs,         \* SchedulerRegistry: the cron jobs registered
    initialized,  \* onModuleInit has run
    pages,        \* the pages table, in query order
    fs,           \* the target tree: files (path -> content, mtime) and directories
    clock,        \* the logical clock behind new Date() and file mtimes
    runs,         \* the calls of performAutomatedSync, by run number
    edits,        \* number of page edits and out-of-band file edits so far
    \* ---- history log on its own (SpecHistory) ----
    hSettings,    \* settings blob per workspace
    hLog,         \* per workspace, every result handed to storeSyncResult, oldest first
    \* ---- page export, step by step (SpecExport) ----
    xPc, xPage, xCurrent, xSegments, xIters, xOut,
    \* ---- single calls of the service's functions ----
    input,        \* the argument the calls of a behaviour start from
    calls         \* the calls made, each with what it was given and what it gave
                  \* (SpecConfig keeps the latest call only)

vars == <<settings, jobs, initialized, pages, fs, clock, runs, edits,
          hSettings, hLog, xPc, xPage, xCurrent, xSegments, xIters, xOut,
          input, calls>>

syncVars == <<settings, jobs, initialized, pages, fs, clock, runs, edits>>
histVars == <<hSettings, hLog>>
exportVars == <<xPc, xPage, xCurrent, xSegments, xIters, xOut>>
callVars == <<input, calls>>

-----------------------------------------------------------------------------
(* Characters and strings *)

UpperSeq == <<"A","B","C","D","E","F","G","H","I","J","K","L","M",
              "N","O","P","Q","R","S","T","U","V","W","X","Y","Z">>
LowerSeq == <<"a","b","c","d","e","f","g","h","i","j","k","l","m",
              "n","o","p","q","r","s","t","u","v","w","x","y","z">>
Digits == {"0","1","2","3","4","5","6","7","8","9"}
Range(s) == {s[i] : i \in DOMAIN s}

\* \w of a JavaScript regular expression: [A-Za-z0-9_]
IsWordChar(c) == c \in Range(UpperSeq) \cup Range(LowerSeq) \cup Digits \cup {"_"}
\* \s: white space
IsSpaceChar(c) == c \in {" ", "\t", "\n"}

ToLowerChar(c) ==
    IF c \in Range(UpperSeq)
    THEN LowerSeq[CHOOSE i \in DOMAIN UpperSeq : UpperSeq[i] = c]
    ELSE c

\* .replace(/\s+/g, '-'): every maximal run of white space becomes one hyphen
RECURSIVE ReplaceSpaceRuns(_)
ReplaceSpaceRuns(s) ==
    IF s = <<>> THEN <<>>
    ELSE IF IsSpaceChar(Head(s))
         THEN IF Len(s) > 1 /\ IsSpaceChar(s[2])
              THEN ReplaceSpaceRuns(Tail(s))
              ELSE <<"-">> \o ReplaceSpaceRuns(Tail(s))
         ELSE <<Head(s)>> \o ReplaceSpaceRuns(Tail(s))

\* String.prototype.trim
RECURSIVE TrimLeft(_)
TrimLeft(s) == IF s # <<>> /\ IsSpaceChar(Head(s)) THEN TrimLeft(Tail(s)) ELSE s
RECURSIVE TrimRight(_)
TrimRight(s) ==
    IF s # <<>> /\ IsSpaceChar(s[Len(s)]) THEN TrimRight(SubSeq(s, 1, Len(s) - 1)) ELSE s
Trim(s) == TrimRight(TrimLeft(s))

\* a sanitizeFilename without the toLowerCase step
sanitizeFilename_keepsCase(filename) ==
    LET kept    == SelectSeq(filename,
                      LAMBDA c : IsWordChar(c) \/ IsSpaceChar(c) \/ c = "-")
    IN  Trim(ReplaceSpaceRuns(kept))

\* a sanitizeFilename whose first pattern is [^\w\s]: hyphens are removed too
sanitizeFilename_dropsHyphen(filename) ==
    LET kept    == SelectSeq(filename, LAMBDA c : IsWordChar(c) \/ IsSpaceChar(c))
        hyphens == ReplaceSpaceRuns(kept)
        lower   == [i \in DOMAIN hyphens |-> ToLowerChar(hyphens[i])]
    IN  Trim(lower)

sanitizeFilename(filename) ==
    LET kept    == SelectSeq(filename,
                      LAMBDA c : IsWordChar(c) \/ IsSpaceChar(c) \/ c = "-")
        hyphens == ReplaceSpaceRuns(kept)
        lower   == [i \in DOMAIN hyphens |-> ToLowerChar(hyphens[i])]
    IN  Trim(lower)

Untitled == <<"u","n","t","i","t","l","e","d">>
DotMd == <<".","m","d">>
IndexMd == <<"i","n","d","e","x",".","m","d">>
RefMd == <<"-","r","e","f",".","m","d">>
CategoryJson == <<"_","c","a","t","e","g","o","r","y","_",".","j","s","o","n">>

\* page.title || 'untitled'
TitleOr(page) == IF page.title = <<>> THEN Untitled ELSE page.title

\* path.join on relative paths: empty segments vanish
PathJoin(p, seg) == IF seg = <<>> THEN p ELSE Append(p, seg)


-----------------------------------------------------------------------------
(* Pages and the target tree *)

NoPage == "null"      \* a null parentPageId

\* Array.prototype.find over a page list: the first page with this id
HasPage(allPages, id) == \E i \in DOMAIN allPages : allPages[i].id = id
FindPage(allPages, id) ==
    allPages[CHOOSE i \in DOMAIN allPages :
                /\ allPages[i].id = id
                /\ \A j \in 1..(i - 1) : allPages[j].id # id]

\* allPages.some(p => p.parentPageId === page.id)
HasChildren(allPages, page) ==
    \E i \in DOMAIN allPages : allPages[i].parentPageId = page.id

\* exportService.exportPage: the renderer's text is a function of the page's content
Render(page) == [page |-> page.id, at |-> page.updatedAt]

EmptyFs == [files |-> <<>>, dirs |-> {}]
FileExists(tree, path) == path \in DOMAIN tree.files

\* a writeFile that does not replace: an existing file is kept and the new
\* content goes to <path>.1
WriteFile_keepsBoth(tree, path, content, now) ==
    LET target == IF path \in DOMAIN tree.files
                  THEN [path EXCEPT ![Len(path)] = @ \o <<".","1">>] ELSE path
    IN  [tree EXCEPT !.files = (target :> [content |-> content, mtime |-> now]) @@ @]

\* writeFile: creates or replaces the file
WriteFile(tree, path, content, now) ==
    [tree EXCEPT !.files = (path :> [content |-> content, mtime |-> now]) @@ @]

\* ensureDirectory / ensureDocsDirectory: mkdir -p unless it is there
EnsureDirectory(tree, dir) == [tree EXCEPT !.dirs = @ \cup {dir}]

\* buildPageHierarchyPath walks the parent links with no visited set: on a walk
\* that comes back to a page it has left, the loop of the code never exits.
\* The operator reports that as diverges (segments is then meaningless).
RECURSIVE HierarchyWalk(_, _, _, _)
HierarchyWalk(currentPage, allPages, pathSegments, seen) ==
    IF currentPage.parentPageId = NoPage \/ ~HasPage(allPages, currentPage.parentPageId)
    THEN [diverges |-> FALSE, segments |-> pathSegments]
    ELSE LET parent == FindPage(allPages, currentPage.parentPageId)
         IN  IF parent.id \in seen
             THEN [diverges |-> TRUE, segments |-> <<>>]
             ELSE HierarchyWalk(parent, allPages,
                                <<sanitizeFilename(TitleOr(parent))>> \o pathSegments,
                                seen \cup {parent.id})

buildPageHierarchyPath(page, allPages) == HierarchyWalk(page, allPages, <<>>, {})

\* path.join of a directory path with further segments
RECURSIVE JoinAll(_, _)
JoinAll(p, segs) ==
    IF segs = <<>> THEN p ELSE JoinAll(PathJoin(p, Head(segs)), Tail(segs))

\* findPageExportPath: the URL a link to the page gets
findPageExportPath(page, allPages, categoryPath) ==
    LET h == buildPageHierarchyPath(page, allPages)
        slug == sanitizeFilename(TitleOr(page))
    IN  [diverges |-> h.diverges,
         url |-> <<categoryPath>> \o h.segments \o <<slug>>,
         dir |-> HasChildren(allPages, page)]

\* processContentReferences: every page the content refers to, and that is in
\* allPages, gets its link rewritten to the page's export path.
processContentReferences(pageContent, currentPage, allPages, categoryPath) ==
    LET refs == {id \in currentPage.refs : HasPage(allPages, id)}
        target(id) == findPageExportPath(FindPage(allPages, id), allPages, categoryPath)
    IN  [diverges |-> \E id \in refs : target(id).diverges,
         content |-> [text |-> pageContent,
                      links |-> {[to |-> id, url |-> target(id).url] :
                                    id \in {r \in refs : ~target(r).diverges}}]]

\* createCrossReference: a stub <slug>-ref.md in the current directory
createCrossReference(st, categoryPath, page, currentPath, allPages, env) ==
    LET original == findPageExportPath(page, allPages, categoryPath)
        redirectFilename == sanitizeFilename(TitleOr(page)) \o RefMd
        dir == JoinAll(<<>>, <<categoryPath>> \o currentPath)
    IN  IF original.diverges THEN [st EXCEPT !.hung = TRUE]
        ELSE IF page.id \in env.fail THEN st
        ELSE [st EXCEPT !.tree = WriteFile(EnsureDirectory(@, dir),
                                           Append(dir, redirectFilename),
                                           [ref |-> page.id, url |-> original.url],
                                           env.now)]

\* an export whose count starts at one
NewExport_countsFromOne(tree) ==
    [exportedPages |-> {}, exportedCount |-> 1, tree |-> tree,
     renders |-> 0, written |-> {}, failed |-> {}, hung |-> FALSE, order |-> <<>>]

\* The state threaded through one export: the manifest (exportedPages), the
\* count returned, the tree, and what the export did to the renderer; order
\* lists the pages in the order their files were written.
NewExport(tree) ==
    [exportedPages |-> {}, exportedCount |-> 0, tree |-> tree,
     renders |-> 0, written |-> {}, failed |-> {}, hung |-> FALSE, order |-> <<>>]

RECURSIVE exportPagesHierarchically(_, _, _, _, _, _, _)
RECURSIVE ExportChildPages(_, _, _, _, _, _, _)

\* a loop body that gives a page with children no directory of its own
ExportChildPage_flat(categoryPath, allPages, page, currentPath, st, processingPath, env) ==
    IF st.hung THEN st
    ELSE IF page.id \in Range(processingPath) THEN st
    ELSE IF page.id \in st.exportedPages
         THEN createCrossReference(st, categoryPath, page, currentPath, allPages, env)
    ELSE
      LET newProcessingPath == Append(processingPath, page.id)
          hasChildren == HasChildren(allPages, page)
          pageDir == sanitizeFilename(TitleOr(page))
          pagePath == currentPath
          filename == IF hasChildren THEN IndexMd ELSE pageDir \o DotMd
          dir == JoinAll(<<>>, <<categoryPath>> \o pagePath)
          made == IF hasChildren
                  THEN [st EXCEPT !.tree = EnsureDirectory(@, dir)] ELSE st
          called == [made EXCEPT !.renders = @ + 1]
          processed == processContentReferences(Render(page), page, allPages, categoryPath)
          fullFilePath == Append(dir, filename)
          wrote == [called EXCEPT
                      !.tree = WriteFile(@, fullFilePath, processed.content, env.now),
                      !.written = @ \cup {fullFilePath},
                      !.exportedPages = @ \cup {page.id},
                      !.exportedCount = @ + 1,
                      !.order = Append(@, page.id)]
      IN  IF page.id \in env.fail
          THEN [called EXCEPT !.failed = @ \cup {page.id}]
          ELSE IF processed.diverges THEN [called EXCEPT !.hung = TRUE]
          ELSE IF hasChildren
          THEN exportPagesHierarchically(categoryPath, allPages, page.id, pagePath,
                                         wrote, newProcessingPath, env)
          ELSE wrote

\* the body of the loop of exportPagesHierarchically for one child page
ExportChildPage(categoryPath, allPages, page, currentPath, st, processingPath, env) ==
    IF st.hung THEN st
    ELSE IF page.id \in Range(processingPath) THEN st
    ELSE IF page.id \in st.exportedPages
         THEN createCrossReference(st, categoryPath, page, currentPath, allPages, env)
    ELSE
      LET newProcessingPath == Append(processingPath, page.id)
          hasChildren == HasChildren(allPages, page)
          pageDir == sanitizeFilename(TitleOr(page))
          pagePath == IF hasChildren THEN PathJoin(currentPath, pageDir) ELSE currentPath
          filename == IF hasChildren THEN IndexMd ELSE pageDir \o DotMd
          dir == JoinAll(<<>>, <<categoryPath>> \o pagePath)
          made == IF hasChildren
                  THEN [st EXCEPT !.tree = EnsureDirectory(@, dir)] ELSE st
          called == [made EXCEPT !.renders = @ + 1]
          processed == processContentReferences(Render(page), page, allPages, categoryPath)
          fullFilePath == Append(dir, filename)
          wrote == [called EXCEPT
                      !.tree = WriteFile(@, fullFilePath, processed.content, env.now),
                      !.written = @ \cup {fullFilePath},
                      !.exportedPages = @ \cup {page.id},
                      !.exportedCount = @ + 1,
                      !.order = Append(@, page.id)]
      IN  IF page.id \in env.fail
          THEN [called EXCEPT !.failed = @ \cup {page.id}]
          ELSE IF processed.diverges THEN [called EXCEPT !.hung = TRUE]
          ELSE IF hasChildren
          THEN exportPagesHierarchically(categoryPath, allPages, page.id, pagePath,
                                         wrote, newProcessingPath, env)
          ELSE wrote

ExportChildPages(categoryPath, allPages, childPages, currentPath, st, processingPath, env) ==
    IF childPages = <<>> THEN st
    ELSE ExportChildPages(categoryPath, allPages, Tail(childPages), currentPath,
            ExportChildPage(categoryPath, allPages, Head(childPages), currentPath,
                            st, processingPath, env),
            processingPath, env)

exportPagesHierarchically(categoryPath, allPages, parentPageId, currentPath, st, processingPath, env) ==
    LET childPages == SelectSeq(allPages, LAMBDA p : p.parentPageId = parentPageId)
    IN  ExportChildPages(categoryPath, allPages, childPages, currentPath, st,
                         processingPath, env)


-----------------------------------------------------------------------------
(* Configuration, settings and the tables the service reads *)

Workspaces == {"w1"}
SpacesTable == {"s1", "s2"}          \* the rows of the spaces table

\* An optional value (null or a value) is a sequence of at most one element.
Null == <<>>
Some(v) == <<v>>
IsNull(o) == o = <<>>
Val(o) == o[1]

\* access(sitePath) succeeds; the three files validateDocusaurusSetup requires exist
SiteExists(sitePath) == sitePath \in {"/site", "/bare"}
HasRequiredFiles(sitePath) == sitePath = "/site"

Mapping(spaceId, categoryName, position) ==
    [spaceId |-> spaceId, categoryName |-> categoryName, position |-> position]

Config(enabled, sitePath, autoEnabled, interval, spaceMappings) ==
    [enabled |-> enabled, sitePath |-> sitePath, baseUrl |-> "/",
     autoSync |-> [enabled |-> autoEnabled, interval |-> interval],
     spaceMappings |-> spaceMappings]

Guides == <<"G","u","i","d","e","s">>
Notes == <<"N","o","t","e","s">>
M1 == Mapping("s1", Guides, 1)
M2 == Mapping("s2", Notes, 2)
MGone == Mapping("s9", Notes, 3)     \* a mapping whose space is not in the table

\* The configurations a client submits in this model.
ConfigChoices ==
    { Config(TRUE, "/site", TRUE, "hourly", <<M1, M2>>),
      Config(TRUE, "/site", FALSE, "manual", <<M1>>),
      Config(TRUE, "/site", TRUE, "manual", <<M2>>),
      Config(TRUE, "/site", TRUE, "daily", <<MGone, M1>>),
      Config(TRUE, "/site", TRUE, "hourly", <<>>),
      Config(TRUE, "/bare", TRUE, "hourly", <<M1>>),
      Config(FALSE, "/site", TRUE, "hourly", <<M1>>) }

\* The configurations found persisted when the service starts.
PersistedConfigs ==
    { Config(TRUE, "/site", TRUE, "hourly", <<M1, M2>>),
      Config(TRUE, "/site", TRUE, "hourly", <<>>),
      Config(TRUE, "/bare", TRUE, "hourly", <<M1>>),
      Config(FALSE, "/site", TRUE, "hourly", <<M1>>) }

EmptySettings == [docusaurusConfig |-> Null, docusaurusSyncHistory |-> <<>>,
                  lastSyncResult |-> Null]

\* getDocusaurusConfig
getDocusaurusConfig(s, workspaceId) == s[workspaceId].docusaurusConfig

\* validateDocusaurusSetup: the list of errors (valid iff empty)
validateDocusaurusSetup(s, workspaceId) ==
    LET config == getDocusaurusConfig(s, workspaceId)
    IN  IF IsNull(config) THEN <<"Docusaurus configuration not found">>
        ELSE LET c == Val(config)
             IN  (IF ~c.enabled THEN <<"Docusaurus integration is disabled">> ELSE <<>>)
                 \o (IF c.sitePath = "" THEN <<"Site path is required">>
                     ELSE IF ~SiteExists(c.sitePath) THEN <<"Site path does not exist">>
                     ELSE IF ~HasRequiredFiles(c.sitePath)
                          THEN <<"Missing required file/directory">>
                     ELSE <<>>)
                 \o (IF c.baseUrl = "" THEN <<"Base URL is required">> ELSE <<>>)

\* The page tables of this model: a tree over two spaces, and a table in which
\* two pages are each other's parent and a root page links to one of them.
Page(id, spaceId, parentPageId, title, refs) ==
    [id |-> id, spaceId |-> spaceId, parentPageId |-> parentPageId,
     title |-> title, refs |-> refs, updatedAt |-> 0]

TreeTable ==
    << Page("p1", "s1", NoPage, <<"R">>, {}),
       Page("p2", "s1", "p1", <<"C"," ","1">>, {"p1"}),
       Page("p3", "s2", NoPage, <<"N">>, {}) >>

CycleTable ==
    << Page("p1", "s1", NoPage, <<"R">>, {"p2"}),
       Page("p2", "s1", "p3", <<"A">>, {}),
       Page("p3", "s1", "p2", <<"B">>, {}) >>

PageTables == {TreeTable, CycleTable}

\* select ... from pages where spaceId = ?
PagesOfSpace(table, spaceId) == SelectSeq(table, LAMBDA p : p.spaceId = spaceId)

\* getSpacePageCount
getSpacePageCount(table, spaceId) == Len(PagesOfSpace(table, spaceId))

\* hasSpaceChangedSince
hasSpaceChangedSince(table, spaceId, sinceDate) ==
    \E i \in DOMAIN table : table[i].spaceId = spaceId /\ table[i].updatedAt > sinceDate

\* orderBy('updatedAt', 'desc') of a page list (ties keep table order)
RECURSIVE SortByUpdatedDesc(_)
SortByUpdatedDesc(ps) ==
    IF ps = <<>> THEN <<>>
    ELSE LET i == CHOOSE i \in DOMAIN ps :
                    /\ \A j \in DOMAIN ps : ps[j].updatedAt <= ps[i].updatedAt
                    /\ \A j \in 1..(i - 1) : ps[j].updatedAt < ps[i].updatedAt
         IN  <<ps[i]>> \o SortByUpdatedDesc(SubSeq(ps, 1, i - 1) \o SubSeq(ps, i + 1, Len(ps)))

\* getChangedPagesInSpace
\* a query without the updatedAt condition
getChangedPagesInSpace_all(table, spaceId, sinceDate) ==
    SortByUpdatedDesc(SelectSeq(table, LAMBDA p : p.spaceId = spaceId))

getChangedPagesInSpace(table, spaceId, sinceDate) ==
    SortByUpdatedDesc(SelectSeq(table,
        LAMBDA p : p.spaceId = spaceId /\ p.updatedAt > sinceDate))


-----------------------------------------------------------------------------
(* Space export and the sync history *)

Min(a, b) == IF a <= b THEN a ELSE b

\* What the file system and the renderer do to one export: the pages whose
\* export throws (in the renderer; a throw of writeFile is caught by the same
\* handler), whether writing _category_.json throws, and the time stamped on
\* the files written.
Env(fail, failCategory, now) ==
    [fail |-> fail, failCategory |-> failCategory, now |-> now]

Failed(message, tree) == [success |-> FALSE, message |-> message, out |-> NewExport(tree)]

\* config.spaceMappings.find(m => m.spaceId === spaceId)
HasMapping(c, spaceId) == \E i \in DOMAIN c.spaceMappings : c.spaceMappings[i].spaceId = spaceId
FindMapping(c, spaceId) ==
    c.spaceMappings[CHOOSE i \in DOMAIN c.spaceMappings :
                       /\ c.spaceMappings[i].spaceId = spaceId
                       /\ \A j \in 1..(i - 1) : c.spaceMappings[j].spaceId # spaceId]

\* ensureDocsDirectory, createCategoryMetadata and writeDocusaurusCategoryFile
WriteCategory(tree, spaceMapping, env) ==
    LET categoryPath == sanitizeFilename(spaceMapping.categoryName)
        dir == JoinAll(<<>>, <<categoryPath>>)
    IN  WriteFile(EnsureDirectory(tree, dir), Append(dir, CategoryJson),
                  [label |-> spaceMapping.categoryName, position |-> spaceMapping.position],
                  env.now)

exportSpaceToDocusaurus(spaceId, c, table, tree, env) ==
    IF ~HasMapping(c, spaceId) THEN Failed("No Docusaurus mapping found for space", tree)
    ELSE IF spaceId \notin SpacesTable THEN Failed("Space not found", tree)
    ELSE
      LET spaceMapping == FindMapping(c, spaceId)
          spacePages == PagesOfSpace(table, spaceId)
          categoryPath == sanitizeFilename(spaceMapping.categoryName)
          madeDir == EnsureDirectory(tree, JoinAll(<<>>, <<categoryPath>>))
      IN  IF env.failCategory THEN Failed("EACCES", madeDir)
          ELSE [success |-> TRUE,
                message |-> "Space exported successfully",
                out |-> exportPagesHierarchically(categoryPath, spacePages, NoPage, <<>>,
                            NewExport(WriteCategory(tree, spaceMapping, env)), <<>>, env)]

\* exportContentToDocusaurus with contentType 'space': every throw becomes a result
exportContentToDocusaurus(s, workspaceId, spaceId, table, tree, env) ==
    LET config == getDocusaurusConfig(s, workspaceId)
    IN  IF IsNull(config) \/ ~Val(config).enabled
        THEN Failed("Docusaurus integration is not enabled", tree)
        ELSE IF validateDocusaurusSetup(s, workspaceId) # <<>>
        THEN Failed("Docusaurus setup is invalid", tree)
        ELSE exportSpaceToDocusaurus(spaceId, Val(config), table, tree, env)

\* The page lists exportSinglePageToDocusaurus selects carry no parentPageId.
StripParents(table) == [i \in DOMAIN table |-> [table[i] EXCEPT !.parentPageId = NoPage]]

\* exportSinglePageToDocusaurus: the file goes to <category>/<slug>.md; every
\* throw is caught and the page is passed over (the code returns null).
exportSinglePageToDocusaurus(st, categoryPath, page, table, env) ==
    LET allSpacePages == StripParents(PagesOfSpace(table, page.spaceId))
        fileName == sanitizeFilename(page.title) \o DotMd
        processed == processContentReferences(Render(page), page, allSpacePages, categoryPath)
        filePath == Append(JoinAll(<<>>, <<categoryPath>>), fileName)
        called == [st EXCEPT !.renders = @ + 1]
    IN  IF page.id \in env.fail
        THEN [called EXCEPT !.failed = @ \cup {page.id}]
        ELSE [called EXCEPT
                !.tree = WriteFile(@, filePath, processed.content, env.now),
                !.written = @ \cup {filePath},
                !.exportedPages = @ \cup {page.id},
                !.exportedCount = @ + 1,
                !.order = Append(@, page.id)]

RECURSIVE ExportChangedLoop(_, _, _, _, _)
ExportChangedLoop(st, categoryPath, changedPages, table, env) ==
    IF changedPages = <<>> THEN st
    ELSE ExportChangedLoop(
            exportSinglePageToDocusaurus(st, categoryPath, Head(changedPages), table, env),
            categoryPath, Tail(changedPages), table, env)

\* exportChangedPagesToDocusaurus.  exportSinglePageToDocusaurus never throws, so
\* the errors list of the code stays empty and the result is success.
exportChangedPagesToDocusaurus(s, workspaceId, spaceId, changedPages, table, tree, env) ==
    LET config == getDocusaurusConfig(s, workspaceId)
    IN  IF changedPages = <<>>
        THEN [success |-> TRUE, message |-> "No pages to sync", out |-> NewExport(tree)]
        ELSE IF IsNull(config)
        THEN Failed("Incremental export failed: Docusaurus configuration not found", tree)
        ELSE IF ~HasMapping(Val(config), spaceId)
        THEN Failed("Incremental export failed: No Docusaurus mapping found", tree)
        ELSE IF spaceId \notin SpacesTable
        THEN Failed("Incremental export failed: Space not found", tree)
        ELSE
          LET spaceMapping == FindMapping(Val(config), spaceId)
              categoryPath == sanitizeFilename(spaceMapping.categoryName)
              madeDir == EnsureDirectory(tree, JoinAll(<<>>, <<categoryPath>>))
          IN  IF env.failCategory THEN Failed("Incremental export failed: EACCES", madeDir)
              ELSE [success |-> TRUE,
                    message |-> "Incremental sync completed",
                    out |-> ExportChangedLoop(
                                NewExport(WriteCategory(tree, spaceMapping, env)),
                                categoryPath, changedPages, table, env)]

\* MaxHistory: storeSyncResult keeps the 50 newest results
MaxHistory == 50

\* storeSyncResult keeping one entry more than the limit
storeSyncResult_keepsOneMore(currentSettings, syncResult) ==
    LET syncHistory == <<syncResult>> \o currentSettings.docusaurusSyncHistory
        trimmedHistory == SubSeq(syncHistory, 1, Min(MaxHistory + 1, Len(syncHistory)))
    IN  [currentSettings EXCEPT !.docusaurusSyncHistory = trimmedHistory,
                                !.lastSyncResult = Some(syncResult)]

\* storeSyncResult: the settings it writes, from the settings it read
storeSyncResult(currentSettings, syncResult) ==
    LET syncHistory == <<syncResult>> \o currentSettings.docusaurusSyncHistory
        trimmedHistory == SubSeq(syncHistory, 1, Min(MaxHistory, Len(syncHistory)))
    IN  [currentSettings EXCEPT !.docusaurusSyncHistory = trimmedHistory,
                                !.lastSyncResult = Some(syncResult)]

\* sort((a, b) => b.startTime - a.startTime): newest start first, ties in place
RECURSIVE SortByStartDesc(_)
SortByStartDesc(h) ==
    IF h = <<>> THEN <<>>
    ELSE LET i == CHOOSE i \in DOMAIN h :
                    /\ \A j \in DOMAIN h : h[j].startTime <= h[i].startTime
                    /\ \A j \in 1..(i - 1) : h[j].startTime < h[i].startTime
         IN  <<h[i]>> \o SortByStartDesc(SubSeq(h, 1, i - 1) \o SubSeq(h, i + 1, Len(h)))

getSyncHistory(s, workspaceId, limit) ==
    LET sorted == SortByStartDesc(s[workspaceId].docusaurusSyncHistory)
    IN  SubSeq(sorted, 1, Min(limit, Len(sorted)))

getLastSyncStatus(s, workspaceId) ==
    LET history == getSyncHistory(s, workspaceId, 1)
    IN  IF Len(history) > 0 THEN Some(history[1]) ELSE Null

\* getLastSyncTimestamp: the end time of the newest stored result, whatever its status
getLastSyncTimestamp(s, workspaceId) ==
    LET lastSync == getLastSyncStatus(s, workspaceId)
    IN  IF IsNull(lastSync) THEN Null ELSE Some(Val(lastSync).endTime)


-----------------------------------------------------------------------------
(* The sync engine: performAutomatedSync as a process, and its triggers *)

MaxRuns == 2          \* calls of performAutomatedSync in one behaviour
MaxOverlap == 2       \* calls of performAutomatedSync when triggers may overlap
MaxEdits == 1         \* page edits in one behaviour
MaxFileEdits == 1     \* out-of-band edits of exported files in one behaviour
MaxConfigUpdates == 2 \* calls of updateDocusaurusConfig in one behaviour
MaxFailing == 1       \* pages whose export throws, per space export

NewStats(totalSpaces) ==
    [totalSpaces |-> totalSpaces, successfulSpaces |-> 0, failedSpaces |-> 0,
     totalPages |-> 0, successfulPages |-> 0, failedPages |-> 0,
     conflicts |-> <<>>, errors |-> <<>>]

\* the status computed without the 'partial' case
SyncStatus_noPartial(syncStats) ==
    IF syncStats.failedSpaces = 0 THEN "success" ELSE "failed"

\* the status performAutomatedSync computes from the counters
SyncStatus(syncStats) ==
    IF syncStats.failedSpaces = 0 THEN "success"
    ELSE IF syncStats.successfulSpaces > 0 THEN "partial" ELSE "failed"

\* the checks at the head of performAutomatedSync without the one on spaceMappings
SyncSetupError_allowsNoMappings(s, workspaceId) ==
    LET config == getDocusaurusConfig(s, workspaceId)
    IN  IF IsNull(config) \/ ~Val(config).enabled
        THEN "Docusaurus integration is not enabled"
        ELSE IF validateDocusaurusSetup(s, workspaceId) # <<>>
        THEN "Setup validation failed"
        ELSE ""

\* The three checks at the head of performAutomatedSync: the message thrown, or ""
SyncSetupError(s, workspaceId) ==
    LET config == getDocusaurusConfig(s, workspaceId)
    IN  IF IsNull(config) \/ ~Val(config).enabled
        THEN "Docusaurus integration is not enabled"
        ELSE IF validateDocusaurusSetup(s, workspaceId) # <<>>
        THEN "Setup validation failed"
        ELSE IF Len(Val(config).spaceMappings) = 0
        THEN "No space mappings configured"
        ELSE ""

NewRun(workspaceId, incremental, trigger, now) ==
    [workspaceId |-> workspaceId, incremental |-> incremental, trigger |-> trigger,
     pc |-> "setup", syncStart |-> now, config |-> Null, lastSyncTime |-> Null,
     next |-> 1, syncStats |-> NewStats(0), result |-> Null, currentSettings |-> Null,
     renders |-> 0, written |-> {}, failed |-> {}, outcomes |-> <<>>]

\* an unchanged space counted successful, its pages left out of the totals
SkipUnchangedSpace_noPages(syncStats, spacePagesToSync) ==
    [syncStats EXCEPT !.successfulSpaces = @ + 1]

\* an unchanged space of an incremental run: counted successful with all its pages
SkipUnchangedSpace(syncStats, spacePagesToSync) ==
    [syncStats EXCEPT !.successfulSpaces = @ + 1,
                      !.totalPages = @ + spacePagesToSync,
                      !.successfulPages = @ + spacePagesToSync]

\* an accounting that counts a failed space without keeping its message
RecordSpaceResult_noMessage(syncStats, mapping, spaceResult, spacePagesToSync) ==
    IF spaceResult.success
    THEN [syncStats EXCEPT !.successfulSpaces = @ + 1,
                           !.totalPages = @ + spacePagesToSync,
                           !.successfulPages = @ + spacePagesToSync]
    ELSE [syncStats EXCEPT !.failedSpaces = @ + 1]

\* the accounting of one space's result
RecordSpaceResult(syncStats, mapping, spaceResult, spacePagesToSync) ==
    IF spaceResult.success
    THEN [syncStats EXCEPT !.successfulSpaces = @ + 1,
                           !.totalPages = @ + spacePagesToSync,
                           !.successfulPages = @ + spacePagesToSync]
    ELSE [syncStats EXCEPT !.failedSpaces = @ + 1,
                           !.errors = Append(@, [space |-> mapping.spaceId,
                                                 message |-> spaceResult.message])]

\* a loop that gives up on the remaining mappings after a failed space
NextMapping_stopsAfterFailure(run, spaceResult) ==
    IF spaceResult.success THEN run.next + 1
    ELSE Len(Val(run.config).spaceMappings) + 1

\* for (const mapping of spaceMappings): the mapping handled after this one
NextMapping(run, spaceResult) == run.next + 1

\* the SyncResult of the normal path
SyncResultOf(syncId, run, syncEnd) ==
    [syncId |-> syncId, workspaceId |-> run.workspaceId,
     status |-> SyncStatus(run.syncStats),
     startTime |-> run.syncStart, endTime |-> syncEnd,
     stats |-> run.syncStats,
     configSnapshot |-> [spaceMappings |-> Len(Val(run.config).spaceMappings),
                         autoSyncEnabled |-> Val(run.config).autoSync.enabled,
                         autoSyncInterval |-> Val(run.config).autoSync.interval]]

\* the failedResult of the catch path
FailedResultOf(syncId, run, syncEnd, message) ==
    [syncId |-> syncId, workspaceId |-> run.workspaceId,
     status |-> "failed",
     startTime |-> run.syncStart, endTime |-> syncEnd,
     stats |-> [NewStats(0) EXCEPT !.errors = <<message>>],
     configSnapshot |-> [spaceMappings |-> 0, autoSyncEnabled |-> FALSE,
                         autoSyncInterval |-> "manual"]]

\* The SchedulerRegistry: the set of the cron jobs registered.  A job carries its
\* name and what its callback calls: performAutomatedSync(workspaceId, {incremental: true}).
JobName(workspaceId) == <<"docusaurus-sync", workspaceId>>

CronJob(workspaceId, interval) ==
    [name |-> JobName(workspaceId), interval |-> interval,
     workspaceId |-> workspaceId, incremental |-> TRUE]

\* schedulerRegistry.getCronJob(name) finds a job
HasJob(j, workspaceId) == \E job \in j : job.name = JobName(workspaceId)

\* schedulerRegistry.deleteCronJob(name)
deleteCronJob(j, name) == {job \in j : job.name # name}

\* schedulerRegistry.addCronJob(name, job): a name already registered makes it
\* throw, and scheduleWorkspaceSync catches that
addCronJob(j, name, job) ==
    IF \E other \in j : other.name = name THEN j ELSE j \cup {job}

\* an unscheduleWorkspaceSync that leaves the registered job in place
unscheduleWorkspaceSync_keepsJob(j, workspaceId) == j

unscheduleWorkspaceSync(j, workspaceId) ==
    IF HasJob(j, workspaceId) THEN deleteCronJob(j, JobName(workspaceId)) ELSE j

scheduleWorkspaceSync(j, workspaceId, interval) ==
    LET removed == unscheduleWorkspaceSync(j, workspaceId)
    IN  IF interval = "manual" THEN removed
        ELSE IF interval \notin {"hourly", "daily"} THEN removed
        ELSE addCronJob(removed, JobName(workspaceId), CronJob(workspaceId, interval))

\* an updateScheduledSync that leaves the registry alone when auto-sync is off
updateScheduledSync_keepsWhenDisabled(j, workspaceId, c) ==
    IF ~c.enabled \/ ~c.autoSync.enabled
    THEN j
    ELSE scheduleWorkspaceSync(j, workspaceId, c.autoSync.interval)

updateScheduledSync(j, workspaceId, c) ==
    IF ~c.enabled \/ ~c.autoSync.enabled
    THEN unscheduleWorkspaceSync(j, workspaceId)
    ELSE scheduleWorkspaceSync(j, workspaceId, c.autoSync.interval)

\* an initializeScheduledSyncs that schedules on autoSync.enabled alone
RECURSIVE InitializeJobs_ignoresEnabled(_, _, _)
InitializeJobs_ignoresEnabled(j, s, todo) ==
    IF todo = {} THEN j
    ELSE LET w == CHOOSE w \in todo : TRUE
             config == getDocusaurusConfig(s, w)
         IN  InitializeJobs_ignoresEnabled(
                IF ~IsNull(config) /\ Val(config).autoSync.enabled
                THEN scheduleWorkspaceSync(j, w, Val(config).autoSync.interval)
                ELSE j,
                s, todo \ {w})

\* initializeScheduledSyncs: one pass over the workspaces table
RECURSIVE InitializeJobs(_, _, _)
InitializeJobs(j, s, todo) ==
    IF todo = {} THEN j
    ELSE LET w == CHOOSE w \in todo : TRUE
             config == getDocusaurusConfig(s, w)
         IN  InitializeJobs(
                IF ~IsNull(config) /\ Val(config).enabled /\ Val(config).autoSync.enabled
                THEN scheduleWorkspaceSync(j, w, Val(config).autoSync.interval)
                ELSE j,
                s, todo \ {w})

Init ==
    /\ settings \in [Workspaces ->
          {[EmptySettings EXCEPT !.docusaurusConfig = c] :
              c \in {Null} \cup {Some(c) : c \in PersistedConfigs}}]
    /\ jobs = {}
    /\ initialized = FALSE
    /\ pages \in PageTables
    /\ fs = EmptyFs
    /\ clock = 1
    /\ runs = <<>>
    /\ edits = [pages |-> 0, files |-> 0, configs |-> 0]
    /\ hSettings = <<>> /\ hLog = <<>>
    /\ xPc = "off" /\ xPage = NoPage /\ xCurrent = NoPage
    /\ xSegments = <<>> /\ xIters = 0 /\ xOut = Null
    /\ input = <<>> /\ calls = <<>>

OnModuleInit ==
    /\ ~initialized
    /\ initialized' = TRUE
    /\ jobs' = InitializeJobs(jobs, settings, DOMAIN settings)
    /\ UNCHANGED <<settings, pages, fs, clock, runs, edits>>
    /\ UNCHANGED <<histVars, exportVars, callVars>>

\* updateDocusaurusConfig: rejected (BadRequestException) when a non-empty
\* sitePath does not exist; otherwise the config is stored and the schedule
\* follows it.  [ok, settings, jobs]
\* an update that persists the configuration before it looks at the site path
updateDocusaurusConfig_writesFirst(s, j, workspaceId, c) ==
    [ok |-> ~(c.sitePath # "" /\ ~SiteExists(c.sitePath)),
     settings |-> [s EXCEPT ![workspaceId].docusaurusConfig = Some(c)],
     jobs |-> IF c.sitePath # "" /\ ~SiteExists(c.sitePath)
              THEN j ELSE updateScheduledSync(j, workspaceId, c)]

updateDocusaurusConfig(s, j, workspaceId, c) ==
    IF c.sitePath # "" /\ ~SiteExists(c.sitePath)
    THEN [ok |-> FALSE, settings |-> s, jobs |-> j]
    ELSE [ok |-> TRUE,
          settings |-> [s EXCEPT ![workspaceId].docusaurusConfig = Some(c)],
          jobs |-> updateScheduledSync(j, workspaceId, c)]

NewCategory == <<"N","e","w"," ","C","a","t","e","g","o","r","y">>

\* updateSpaceMapping: mapping is a partial DocusaurusSpaceMappingDto, a record
\* with some of the fields.  { ...existing, ...mapping } takes every field the
\* partial carries.
updateSpaceMapping(s, j, workspaceId, spaceId, mapping) ==
    LET config == getDocusaurusConfig(s, workspaceId)
    IN  IF IsNull(config) THEN [ok |-> FALSE, settings |-> s, jobs |-> j]
        ELSE
          LET c == Val(config)
              existingMappingIndex ==
                  CHOOSE i \in DOMAIN c.spaceMappings :
                      /\ c.spaceMappings[i].spaceId = spaceId
                      /\ \A k \in 1..(i - 1) : c.spaceMappings[k].spaceId # spaceId
              updated == [c.spaceMappings EXCEPT
                            ![existingMappingIndex] = mapping @@ @]
              created == Append(c.spaceMappings,
                            [spaceId |-> spaceId,
                             categoryName |->
                                 IF "categoryName" \in DOMAIN mapping /\ mapping.categoryName # <<>>
                                 THEN mapping.categoryName ELSE NewCategory,
                             position |->
                                 IF "position" \in DOMAIN mapping /\ mapping.position # 0
                                 THEN mapping.position ELSE Len(c.spaceMappings) + 1])
          IN  updateDocusaurusConfig(s, j, workspaceId,
                  [c EXCEPT !.spaceMappings =
                      IF HasMapping(c, spaceId) THEN updated ELSE created])

\* removeSpaceMapping
removeSpaceMapping(s, j, workspaceId, spaceId) ==
    LET config == getDocusaurusConfig(s, workspaceId)
    IN  IF IsNull(config) THEN [ok |-> FALSE, settings |-> s, jobs |-> j]
        ELSE updateDocusaurusConfig(s, j, workspaceId,
                [Val(config) EXCEPT !.spaceMappings =
                    SelectSeq(@, LAMBDA m : m.spaceId # spaceId)])

\* a call of one of the configuration endpoints, and what it leaves behind
ConfigCall(call, out) ==
    /\ initialized
    /\ edits.configs < MaxConfigUpdates
    /\ edits' = [edits EXCEPT !.configs = @ + 1]
    /\ settings' = out.settings
    /\ jobs' = out.jobs
    /\ calls' = <<[call EXCEPT !.ok = out.ok]>>
    /\ UNCHANGED <<initialized, pages, fs, clock, runs, input>>
    /\ UNCHANGED <<histVars, exportVars>>

UpdateDocusaurusConfig(workspaceId, c) ==
    ConfigCall([op |-> "updateDocusaurusConfig", workspaceId |-> workspaceId,
                config |-> c, ok |-> TRUE],
               updateDocusaurusConfig(settings, jobs, workspaceId, c))

UpdateSpaceMapping(workspaceId, spaceId, mapping) ==
    ConfigCall([op |-> "updateSpaceMapping", workspaceId |-> workspaceId,
                spaceId |-> spaceId, mapping |-> mapping, ok |-> TRUE],
               updateSpaceMapping(settings, jobs, workspaceId, spaceId, mapping))

RemoveSpaceMapping(workspaceId, spaceId) ==
    ConfigCall([op |-> "removeSpaceMapping", workspaceId |-> workspaceId,
                spaceId |-> spaceId, ok |-> TRUE],
               removeSpaceMapping(settings, jobs, workspaceId, spaceId))

\* the scheduler's public methods called directly
ScheduleWorkspaceSync(workspaceId, interval) ==
    ConfigCall([op |-> "scheduleWorkspaceSync", workspaceId |-> workspaceId,
                interval |-> interval, ok |-> TRUE],
               [ok |-> TRUE, settings |-> settings,
                jobs |-> scheduleWorkspaceSync(jobs, workspaceId, interval)])

UnscheduleWorkspaceSync(workspaceId) ==
    ConfigCall([op |-> "unscheduleWorkspaceSync", workspaceId |-> workspaceId, ok |-> TRUE],
               [ok |-> TRUE, settings |-> settings,
                jobs |-> unscheduleWorkspaceSync(jobs, workspaceId)])

UpdateScheduledSync(workspaceId, c) ==
    ConfigCall([op |-> "updateScheduledSync", workspaceId |-> workspaceId,
                config |-> c, ok |-> TRUE],
               [ok |-> TRUE, settings |-> settings,
                jobs |-> updateScheduledSync(jobs, workspaceId, c)])

\* performAutomatedSync up to the loop: the start time, the setup checks and
\* lastSyncTime.  A throw goes to the catch path, which builds failedResult and
\* calls storeSyncResult (whose read of the settings is taken here).
StartSync(workspaceId, incremental, trigger) ==
    LET r == Len(runs) + 1
        run == NewRun(workspaceId, incremental, trigger, clock)
        message == SyncSetupError(settings, workspaceId)
        config == getDocusaurusConfig(settings, workspaceId)
    IN  /\ initialized
        /\ Len(runs) < MaxRuns
        /\ IF message # ""
           THEN runs' = Append(runs,
                    [run EXCEPT !.pc = "store",
                                !.result = Some(FailedResultOf(r, run, clock, message)),
                                !.currentSettings = Some(settings[workspaceId])])
           ELSE runs' = Append(runs,
                    [run EXCEPT !.pc = "spaces",
                                !.config = config,
                                !.syncStats = NewStats(Len(Val(config).spaceMappings)),
                                !.lastSyncTime =
                                    IF incremental
                                    THEN getLastSyncTimestamp(settings, workspaceId)
                                    ELSE Null])
        /\ clock' = clock + 1
        /\ UNCHANGED <<settings, jobs, initialized, pages, fs, edits>>
        /\ UNCHANGED <<histVars, exportVars, callVars>>

\* triggerManualSync: a full run
TriggerManualSync(workspaceId) == StartSync(workspaceId, FALSE, "manual")

\* the callback of the workspace's cron job: an incremental run
CronFire(workspaceId) ==
    \E job \in jobs :
        /\ job.workspaceId = workspaceId
        /\ StartSync(job.workspaceId, job.incremental, "cron")

\* The inputs of one space export: at most MaxFailing pages of the space throw.
Envs(table, spaceId, now) ==
    LET ids == {table[i].id : i \in {j \in DOMAIN table : table[j].spaceId = spaceId}}
    IN  {Env(f, FALSE, now) : f \in {x \in SUBSET ids : Cardinality(x) <= MaxFailing}}
        \cup {Env({}, TRUE, now)}

\* the updatedAt of the pages of a space as a turn of the loop finds them
SeenStamps(table, spaceId) ==
    {<<table[i].id, table[i].updatedAt>> : i \in {j \in DOMAIN table : table[j].spaceId = spaceId}}

\* One turn of the loop over spaceMappings: [skipped, result, pagesToSync]
SpaceTurn(run, mapping, s, table, tree, env) ==
    IF run.incremental /\ ~IsNull(run.lastSyncTime)
    THEN IF ~hasSpaceChangedSince(table, mapping.spaceId, Val(run.lastSyncTime))
         THEN [skipped |-> TRUE, mode |-> "skipped",
               spaceResult |-> [success |-> TRUE, message |-> "", out |-> NewExport(tree)],
               spacePagesToSync |-> getSpacePageCount(table, mapping.spaceId)]
         ELSE LET changedPages ==
                      getChangedPagesInSpace(table, mapping.spaceId, Val(run.lastSyncTime))
              IN  [skipped |-> FALSE, mode |-> "changed",
                   spaceResult |-> exportChangedPagesToDocusaurus(s, run.workspaceId,
                                      mapping.spaceId, changedPages, table, tree, env),
                   spacePagesToSync |-> Len(changedPages)]
    ELSE [skipped |-> FALSE, mode |-> "full",
          spaceResult |-> exportContentToDocusaurus(s, run.workspaceId, mapping.spaceId,
                                                    table, tree, env),
          spacePagesToSync |-> getSpacePageCount(table, mapping.spaceId)]

\* performAutomatedSync, one space of the loop
SyncSpace(r) ==
    /\ r \in DOMAIN runs
    /\ runs[r].pc = "spaces"
    /\ runs[r].next <= Len(Val(runs[r].config).spaceMappings)
    /\ LET run == runs[r]
           mapping == Val(run.config).spaceMappings[run.next]
       IN  \E env \in Envs(pages, mapping.spaceId, clock) :
             LET turn == SpaceTurn(run, mapping, settings, pages, fs, env)
                 out == turn.spaceResult.out
                 did == [run EXCEPT !.renders = @ + out.renders,
                                    !.written = @ \cup out.written,
                                    !.failed = @ \cup out.failed]
             IN  /\ fs' = out.tree
                 /\ IF out.hung
                    THEN runs' = [runs EXCEPT ![r] = [did EXCEPT !.pc = "hung"]]
                    ELSE runs' = [runs EXCEPT ![r] =
                            [did EXCEPT
                               !.outcomes = Append(@, [space |-> mapping.spaceId,
                                                       success |-> turn.spaceResult.success,
                                                       mode |-> turn.mode,
                                                       exported |-> out.order,
                                                       exportedCount |-> out.exportedCount,
                                                       exportedPages |-> out.exportedPages,
                                                       seen |-> SeenStamps(pages, mapping.spaceId)]),
                               !.next = NextMapping(run, turn.spaceResult),
                               !.syncStats =
                                  IF turn.skipped
                                  THEN SkipUnchangedSpace(@, turn.spacePagesToSync)
                                  ELSE RecordSpaceResult(@, mapping, turn.spaceResult,
                                                         turn.spacePagesToSync)]]
    /\ UNCHANGED <<settings, jobs, initialized, pages, clock, edits>>
    /\ UNCHANGED <<histVars, exportVars, callVars>>

\* performAutomatedSync after the loop: the result, and storeSyncResult's read
FinishSync(r) ==
    /\ r \in DOMAIN runs
    /\ runs[r].pc = "spaces"
    /\ runs[r].next > Len(Val(runs[r].config).spaceMappings)
    /\ runs' = [runs EXCEPT ![r].pc = "store",
                            ![r].result = Some(SyncResultOf(r, runs[r], clock)),
                            ![r].currentSettings = Some(settings[runs[r].workspaceId])]
    /\ clock' = clock + 1
    /\ UNCHANGED <<settings, jobs, initialized, pages, fs, edits>>
    /\ UNCHANGED <<histVars, exportVars, callVars>>

\* storeSyncResult's write of the whole settings blob; the run returns its result
StoreWrite(r) ==
    /\ r \in DOMAIN runs
    /\ runs[r].pc = "store"
    /\ settings' = [settings EXCEPT ![runs[r].workspaceId] =
                       storeSyncResult(Val(runs[r].currentSettings), Val(runs[r].result))]
    /\ runs' = [runs EXCEPT ![r].pc = "done"]
    /\ UNCHANGED <<jobs, initialized, pages, fs, clock, edits>>
    /\ UNCHANGED <<histVars, exportVars, callVars>>

\* a user edits a page: updatedAt moves to now
EditPage(i) ==
    /\ initialized
    /\ i \in DOMAIN pages
    /\ edits.pages < MaxEdits
    /\ pages' = [pages EXCEPT ![i].updatedAt = clock]
    /\ edits' = [edits EXCEPT !.pages = @ + 1]
    /\ clock' = clock + 1
    /\ UNCHANGED <<settings, jobs, initialized, fs, runs>>
    /\ UNCHANGED <<histVars, exportVars, callVars>>

\* someone edits a page's file in the target tree by hand
EditFile(path) ==
    /\ path \in DOMAIN fs.files
    /\ path[Len(path)] # CategoryJson
    /\ edits.files < MaxFileEdits
    /\ fs' = WriteFile(fs, path, [edited |-> clock], clock)
    /\ edits' = [edits EXCEPT !.files = @ + 1]
    /\ clock' = clock + 1
    /\ UNCHANGED <<settings, jobs, initialized, pages, runs>>
    /\ UNCHANGED <<histVars, exportVars, callVars>>

\* no run of the workspace is in flight: the caller waits for the previous run
Idle(workspaceId) ==
    \A i \in DOMAIN runs : runs[i].workspaceId = workspaceId => runs[i].pc = "done"

\* triggers that arrive after the previous run of the workspace has returned
SpacedManualSync(workspaceId) == Idle(workspaceId) /\ TriggerManualSync(workspaceId)
SpacedCronFire(workspaceId) == Idle(workspaceId) /\ CronFire(workspaceId)

\* triggers that arrive at any time; nothing in the service holds them back
OverlappingManualSync(workspaceId) ==
    Len(runs) < MaxOverlap /\ TriggerManualSync(workspaceId)
OverlappingCronFire(workspaceId) ==
    Len(runs) < MaxOverlap /\ CronFire(workspaceId)

\* Runs spaced apart, with users editing pages and files between and during them.
Next ==
    \/ OnModuleInit
    \/ \E w \in Workspaces : SpacedManualSync(w)
    \/ \E w \in Workspaces : SpacedCronFire(w)
    \/ \E r \in 1..MaxRuns : SyncSpace(r)
    \/ \E r \in 1..MaxRuns : FinishSync(r)
    \/ \E r \in 1..MaxRuns : StoreWrite(r)
    \/ \E i \in 1..Len(pages) : EditPage(i)
    \/ \E path \in DOMAIN fs.files : EditFile(path)

Spec == Init /\ [][Next]_vars

\* Triggers at any time: a manual trigger and a cron firing may overlap.
NextOverlap ==
    \/ OnModuleInit
    \/ \E w \in Workspaces : OverlappingManualSync(w)
    \/ \E w \in Workspaces : OverlappingCronFire(w)
    \/ \E r \in 1..MaxOverlap : SyncSpace(r)
    \/ \E r \in 1..MaxOverlap : FinishSync(r)
    \/ \E r \in 1..MaxOverlap : StoreWrite(r)

SpecOverlap == Init /\ [][NextOverlap]_vars

-----------------------------------------------------------------------------
\* The history of sync results on its own: storeSyncResult called again and
\* again, for two workspaces, long enough to fill the history and overflow it.

MaxStores == 52
HistoryWorkspaces == {"w1", "w2"}

\* the n-th result stored for a workspace
StoredResult(workspaceId, n) ==
    [syncId |-> n, workspaceId |-> workspaceId, startTime |-> n, endTime |-> n,
     status |-> IF n % 3 = 0 THEN "failed" ELSE "success"]

InitHistory ==
    /\ hSettings = [w \in HistoryWorkspaces |-> EmptySettings]
    /\ hLog = [w \in HistoryWorkspaces |-> <<>>]
    /\ settings = [w \in Workspaces |-> EmptySettings]
    /\ jobs = {}
    /\ initialized = FALSE
    /\ pages = TreeTable
    /\ fs = EmptyFs
    /\ clock = 1
    /\ runs = <<>>
    /\ edits = [pages |-> 0, files |-> 0, configs |-> 0]
    /\ xPc = "off" /\ xPage = NoPage /\ xCurrent = NoPage
    /\ xSegments = <<>> /\ xIters = 0 /\ xOut = Null
    /\ input = <<>> /\ calls = <<>>

\* one call of storeSyncResult: read the settings, prepend, trim, write back
StoreResult(workspaceId) ==
    LET syncResult == StoredResult(workspaceId, Len(hLog[workspaceId]) + 1)
    IN  /\ Len(hLog[workspaceId]) < MaxStores
        /\ hSettings' = [hSettings EXCEPT
                            ![workspaceId] = storeSyncResult(@, syncResult)]
        /\ hLog' = [hLog EXCEPT ![workspaceId] = Append(@, syncResult)]
        /\ UNCHANGED <<syncVars, exportVars, callVars>>

NextHistory == \E w \in HistoryWorkspaces : StoreResult(w)

SpecHistory == InitHistory /\ [][NextHistory]_vars

\* C1: after any sequence of storeSyncResult calls for a workspace the history
\* holds at most 50 results, the newest first: it is exactly the last 50 stored
\* results in reverse order of storing (so the 51st store evicted the oldest
\* and nothing else), and the cached last result is the newest one.
C1_HistoryBounded ==
    \A w \in DOMAIN hSettings :
        LET h == hSettings[w].docusaurusSyncHistory
            n == Len(hLog[w])
        IN  /\ Len(h) <= 50
            /\ Len(h) = Min(n, 50)
            /\ \A i \in 1..Len(h) : h[i] = hLog[w][n + 1 - i]
            /\ n > 0 => hSettings[w].lastSyncResult = Some(hLog[w][n])

\* a 51st result was stored into a full history: results 51..2 remain
C1_Witness ==
    \E w \in DOMAIN hSettings :
        LET h == hSettings[w].docusaurusSyncHistory
        IN  /\ Len(hLog[w]) = 51
            /\ Len(h) = 50
            /\ h[1].syncId = 51
            /\ h[50].syncId = 2

-----------------------------------------------------------------------------
(* Properties of sync runs *)

\* a run that has computed its result
Finished(run) == run.pc \in {"store", "done"}

\* a run past the setup checks (the normal path of performAutomatedSync)
PastSetup(run) == ~IsNull(run.config)

\* a run whose setup checks threw (the catch path of performAutomatedSync)
FastFailed(run) == Finished(run) /\ IsNull(run.config)

\* C2 (as claimed): at no time are two runs of one workspace in progress together.
C2_OneRunPerWorkspace ==
    \A r1, r2 \in DOMAIN runs :
        (/\ r1 # r2
         /\ runs[r1].workspaceId = runs[r2].workspaceId
         /\ runs[r1].pc # "done")
        => runs[r2].pc = "done"

\* C3 (as claimed): status is 'success' iff failedSpaces = 0, 'partial' iff some
\* space failed and some succeeded, 'failed' iff no space succeeded.
C3_StatusAsClaimed ==
    \A r \in DOMAIN runs :
        Finished(runs[r]) =>
            LET res == Val(runs[r].result)
            IN  /\ res.status = "success" <=> res.stats.failedSpaces = 0
                /\ res.status = "partial" <=>
                       (res.stats.failedSpaces > 0 /\ res.stats.successfulSpaces > 0)
                /\ res.status = "failed" <=> res.stats.successfulSpaces = 0

\* C3 (amended): status is 'success' iff no space failed and at least one
\* succeeded, 'partial' iff some space failed and some succeeded, 'failed' iff
\* no space succeeded; a fast-fail run has all counts 0 and status 'failed'.
C3_StatusFromCounts ==
    \A r \in DOMAIN runs :
        Finished(runs[r]) =>
            LET res == Val(runs[r].result)
            IN  /\ res.status = "success" <=>
                       (res.stats.failedSpaces = 0 /\ res.stats.successfulSpaces > 0)
                /\ res.status = "partial" <=>
                       (res.stats.failedSpaces > 0 /\ res.stats.successfulSpaces > 0)
                /\ res.status = "failed" <=> res.stats.successfulSpaces = 0
                /\ FastFailed(runs[r]) =>
                       (res.status = "failed" /\ res.stats.failedSpaces = 0)

\* a fast-fail run has ended: no space failed, and the status is 'failed'
C3_Witness ==
    \E r \in DOMAIN runs :
        /\ runs[r].pc = "done" /\ FastFailed(runs[r])
        /\ Val(runs[r].result).status = "failed"
        /\ Val(runs[r].result).stats.failedSpaces = 0

\* the failed turns among the first k outcomes of a run, in order
RECURSIVE FailedSpacesOf(_)
FailedSpacesOf(outcomes) ==
    IF outcomes = <<>> THEN <<>>
    ELSE (IF Head(outcomes).success THEN <<>> ELSE <<Head(outcomes).space>>)
         \o FailedSpacesOf(Tail(outcomes))

\* C4: in a run over mappings m1..mn every failed space is recorded as one
\* error (in the order of the mappings) and counted in failedSpaces, and the
\* loop goes on to the next mapping: a run still in the loop stands at the
\* mapping after the last one handled, and a run that has left the loop has
\* handled all n mappings.
C4_FailureDoesNotAbort ==
    \A r \in DOMAIN runs :
        PastSetup(runs[r]) =>
            LET run == runs[r]
                mappings == Val(run.config).spaceMappings
                failedSpaces == FailedSpacesOf(run.outcomes)
            IN  /\ run.syncStats.failedSpaces = Len(failedSpaces)
                /\ Len(run.syncStats.errors) = Len(failedSpaces)
                /\ \A i \in DOMAIN failedSpaces :
                       run.syncStats.errors[i].space = failedSpaces[i]
                /\ \A i \in DOMAIN run.outcomes :
                       run.outcomes[i].space = mappings[i].spaceId
                /\ run.pc = "spaces" => run.next = Len(run.outcomes) + 1
                /\ Finished(run) => Len(run.outcomes) = Len(mappings)

\* the first of two spaces failed and the second was exported all the same
C4_Witness ==
    \E r \in DOMAIN runs :
        /\ runs[r].pc = "done" /\ PastSetup(runs[r])
        /\ Len(runs[r].outcomes) = 2
        /\ ~runs[r].outcomes[1].success
        /\ runs[r].outcomes[2].success
        /\ Val(runs[r].result).stats.failedSpaces = 1
        /\ Val(runs[r].result).stats.successfulSpaces = 1
        /\ runs[r].written # {}

\* the workspace's configuration does not let a sync start: there is none, the
\* integration is disabled, the site path or base URL is unusable, or no space
\* is mapped
UnusableConfig(config) ==
    \/ IsNull(config)
    \/ ~Val(config).enabled
    \/ Val(config).sitePath = ""
    \/ ~SiteExists(Val(config).sitePath)
    \/ ~HasRequiredFiles(Val(config).sitePath)
    \/ Val(config).baseUrl = ""
    \/ Val(config).spaceMappings = <<>>

\* C5: a run started on a workspace without configuration, with the
\* integration disabled, with an invalid setup or without space mappings ends
\* with status 'failed', has called the renderer zero times and written no
\* file, and its failed result is in the stored history once the run returned.
\* (Nothing changes the configuration in these behaviours, so the
\* configuration at the start of the run is the stored one.)
C5_FastFail ==
    \A r \in DOMAIN runs :
        UnusableConfig(settings[runs[r].workspaceId].docusaurusConfig) =>
            /\ Finished(runs[r])
            /\ Val(runs[r].result).status = "failed"
            /\ runs[r].renders = 0
            /\ runs[r].written = {}
            /\ runs[r].pc = "done" =>
                   \E i \in DOMAIN settings[runs[r].workspaceId].docusaurusSyncHistory :
                       settings[runs[r].workspaceId].docusaurusSyncHistory[i]
                           = Val(runs[r].result)

\* a run on a workspace whose mappings are empty has returned, and a run on a
\* workspace without usable site has: both failed results are in the history
C5_Witness ==
    /\ Len(runs) = 2
    /\ \A r \in DOMAIN runs :
          /\ runs[r].pc = "done"
          /\ UnusableConfig(settings[runs[r].workspaceId].docusaurusConfig)
          /\ Val(runs[r].result).status = "failed"
    /\ Len(settings["w1"].docusaurusSyncHistory) = 2
    /\ fs = EmptyFs

\* the earlier runs of run r's workspace that did not end with status 'failed'
\* (in these behaviours every earlier run has returned when run r starts)
SuccessfulBefore(r) ==
    {i \in 1..(r - 1) : /\ runs[i].workspaceId = runs[r].workspaceId
                        /\ Val(runs[i].result).status # "failed"}

\* C6 (as claimed): the lastSyncTime of an incremental run is the end time of
\* the last earlier run of the workspace that did not fail, and there is none
\* when every earlier run failed: a failed run does not advance the baseline.
C6_BaselineFromSuccessfulRun ==
    \A r \in DOMAIN runs :
        (runs[r].incremental /\ PastSetup(runs[r])) =>
            runs[r].lastSyncTime =
                IF SuccessfulBefore(r) = {} THEN Null
                ELSE Some(Val(runs[CHOOSE i \in SuccessfulBefore(r) :
                                     \A j \in SuccessfulBefore(r) : j <= i].result).endTime)

\* the page counts of the mapped spaces, added up
RECURSIVE MappedPageCount(_, _)
MappedPageCount(mappings, table) ==
    IF mappings = <<>> THEN 0
    ELSE Len(SelectSeq(table, LAMBDA p : p.spaceId = Head(mappings).spaceId))
         + MappedPageCount(Tail(mappings), table)

\* no page of a mapped space is newer than the run's lastSyncTime
NothingChanged(run) ==
    \A i \in DOMAIN pages :
        (\E m \in DOMAIN Val(run.config).spaceMappings :
            Val(run.config).spaceMappings[m].spaceId = pages[i].spaceId)
        => pages[i].updatedAt <= Val(run.lastSyncTime)

\* C7: an incremental run with a lastSyncTime, in which no page of a mapped
\* space has updatedAt > lastSyncTime, ends with successfulSpaces =
\* totalSpaces, failedSpaces = 0 and totalPages = the sum of the mapped spaces'
\* page counts, having called the renderer zero times and written no file.
\* (updatedAt only grows, so nothing changed at the end means nothing had
\* changed when the run looked.)
C7_UnchangedIncremental ==
    \A r \in DOMAIN runs :
        (/\ Finished(runs[r]) /\ PastSetup(runs[r])
         /\ runs[r].incremental /\ ~IsNull(runs[r].lastSyncTime)
         /\ NothingChanged(runs[r]))
        => LET stats == Val(runs[r].result).stats
           IN  /\ stats.successfulSpaces = stats.totalSpaces
               /\ stats.totalSpaces = Len(Val(runs[r].config).spaceMappings)
               /\ stats.failedSpaces = 0
               /\ stats.totalPages =
                      MappedPageCount(Val(runs[r].config).spaceMappings, pages)
               /\ runs[r].renders = 0
               /\ runs[r].written = {}

\* a cron run after a full export, with no page edited since: both spaces
\* skipped, three pages counted, nothing rendered
C7_Witness ==
    \E r \in DOMAIN runs :
        /\ runs[r].pc = "done" /\ PastSetup(runs[r])
        /\ runs[r].incremental /\ ~IsNull(runs[r].lastSyncTime)
        /\ NothingChanged(runs[r])
        /\ Val(runs[r].result).stats.totalSpaces = 2
        /\ Val(runs[r].result).stats.totalPages = 3
        /\ runs[r].renders = 0
        /\ fs.files # <<>>

\* C9 (as claimed): the pages whose export failed in a run are counted in
\* failedPages and not in successfulPages: failedPages is their number and
\* successfulPages + failedPages = totalPages.
C9_FailedPagesCounted ==
    \A r \in DOMAIN runs :
        (Finished(runs[r]) /\ PastSetup(runs[r])) =>
            LET stats == Val(runs[r].result).stats
            IN  /\ stats.failedPages = Cardinality(runs[r].failed)
                /\ stats.successfulPages + stats.failedPages = stats.totalPages

\* C10 (as claimed): a step of a run with a lastSyncTime leaves the content of
\* every file alone whose modification time is after that lastSyncTime (a
\* newer_version conflict, resolved by skip).
C10_NewerFileSkipped ==
    [][\A r \in DOMAIN runs :
          (/\ runs[r].pc = "spaces"
           /\ r \in DOMAIN runs' /\ runs'[r] # runs[r]
           /\ ~IsNull(runs[r].lastSyncTime))
          => \A path \in DOMAIN fs.files :
                fs.files[path].mtime > Val(runs[r].lastSyncTime)
                => fs'.files[path].content = fs.files[path].content]_vars

-----------------------------------------------------------------------------
\* buildPageHierarchyPath step by step: one action per turn of its while loop,
\* over every way three pages of a space can name each other as parent.

MaxWalk == 5          \* turns of the while loop followed in one call

PageIds == <<"p1", "p2", "p3">>

\* every assignment of a parentPageId (null, or any of the three pages) to the pages
ParentTables ==
    {[i \in DOMAIN PageIds |-> Page(PageIds[i], "s1", parent[i], <<UpperSeq[i]>>, {})] :
        parent \in [DOMAIN PageIds -> {NoPage} \cup Range(PageIds)]}

InitExport ==
    /\ pages \in ParentTables
    /\ xPc = "idle" /\ xPage = NoPage /\ xCurrent = NoPage
    /\ xSegments = <<>> /\ xIters = 0 /\ xOut = Null
    /\ input = <<>> /\ calls = <<>>
    /\ settings = [w \in Workspaces |-> EmptySettings]
    /\ jobs = {}
    /\ initialized = FALSE
    /\ fs = EmptyFs
    /\ clock = 1
    /\ runs = <<>>
    /\ edits = [pages |-> 0, files |-> 0, configs |-> 0]
    /\ hSettings = <<>> /\ hLog = <<>>

\* the call: pathSegments = [], currentPage = page
BeginHierarchyPath(i) ==
    /\ xPc = "idle"
    /\ xPage' = pages[i].id
    /\ xCurrent' = pages[i].id
    /\ xSegments' = <<>>
    /\ xIters' = 0
    /\ xOut' = Null
    /\ xPc' = "walk"
    /\ UNCHANGED <<syncVars, histVars, callVars>>

\* one test of the while condition and, when it holds, one turn of the body
WalkStep ==
    /\ xPc = "walk"
    /\ xIters < MaxWalk
    /\ LET currentPage == FindPage(pages, xCurrent)
       IN  IF currentPage.parentPageId # NoPage /\ HasPage(pages, currentPage.parentPageId)
           THEN LET parent == FindPage(pages, currentPage.parentPageId)
                IN  /\ xSegments' = <<sanitizeFilename(TitleOr(parent))>> \o xSegments
                    /\ xCurrent' = parent.id
                    /\ xIters' = xIters + 1
                    /\ UNCHANGED <<xPc, xOut>>
           ELSE /\ xPc' = "returned"
                /\ xOut' = Some(xSegments)
                /\ UNCHANGED <<xCurrent, xSegments, xIters>>
    /\ UNCHANGED <<xPage, syncVars, histVars, callVars>>

\* the caller takes the path; the next call may begin
TakePath ==
    /\ xPc = "returned"
    /\ xPc' = "idle"
    /\ UNCHANGED <<xPage, xCurrent, xSegments, xIters, xOut, syncVars, histVars, callVars>>

NextExport ==
    \/ \E i \in DOMAIN PageIds : BeginHierarchyPath(i)
    \/ WalkStep
    \/ TakePath

SpecExport == InitExport /\ [][NextExport]_vars

\* C8 (as claimed): computing a page's hierarchy path does not loop forever,
\* whatever the parent links.  The loop's state is currentPage alone, so a walk
\* that terminates visits no page twice and makes fewer turns than there are
\* pages; a walk that has made more turns than there are pages has come back
\* to a page and repeats from there without end.
C8_HierarchyWalkBounded == xIters <= Len(pages)

-----------------------------------------------------------------------------
\* The export functions called on their own: exportContentToDocusaurus for a
\* space and exportChangedPagesToDocusaurus, one call after another on the
\* same target tree.

MaxExports == 2       \* export calls in one behaviour
MaxStamp == 2         \* the latest updatedAt a page starts with

\* the tree-shaped table with every choice of updatedAt for the pages of s1
StampedTables ==
    {[i \in DOMAIN TreeTable |->
         IF i \in DOMAIN at THEN [TreeTable[i] EXCEPT !.updatedAt = at[i]] ELSE TreeTable[i]] :
        at \in [1..2 -> 0..MaxStamp]}

\* the spaceId arguments of a call: the spaces of the table and one that is gone
SpaceArgs == SpacesTable \cup {"s9"}

InitSpace ==
    /\ settings \in [Workspaces ->
          {[EmptySettings EXCEPT !.docusaurusConfig = c] :
              c \in {Null} \cup {Some(c) : c \in ConfigChoices}}]
    /\ pages \in StampedTables
    /\ fs = EmptyFs
    /\ clock = MaxStamp + 1
    /\ calls = <<>> /\ input = <<>>
    /\ jobs = {}
    /\ initialized = FALSE
    /\ runs = <<>>
    /\ edits = [pages |-> 0, files |-> 0, configs |-> 0]
    /\ hSettings = <<>> /\ hLog = <<>>
    /\ xPc = "off" /\ xPage = NoPage /\ xCurrent = NoPage
    /\ xSegments = <<>> /\ xIters = 0 /\ xOut = Null

\* what a call leaves in the log: its arguments, the tree before and after,
\* and what it returned and did
ExportCall(op, spaceId, env, spaceResult) ==
    [op |-> op, spaceId |-> spaceId, env |-> env, before |-> fs,
     after |-> spaceResult.out.tree,
     success |-> spaceResult.success, message |-> spaceResult.message,
     order |-> spaceResult.out.order, failed |-> spaceResult.out.failed,
     written |-> spaceResult.out.written]

\* exportContentToDocusaurus(workspaceId, spaceId, 'space')
ExportContent(workspaceId, spaceId) ==
    /\ Len(calls) < MaxExports
    /\ \E env \in Envs(pages, spaceId, clock) :
          LET spaceResult == exportContentToDocusaurus(settings, workspaceId, spaceId,
                                                       pages, fs, env)
          IN  /\ fs' = spaceResult.out.tree
              /\ calls' = Append(calls, ExportCall("exportContent", spaceId, env, spaceResult))
    /\ clock' = clock + 1
    /\ UNCHANGED <<settings, jobs, initialized, pages, runs, edits, input>>
    /\ UNCHANGED <<histVars, exportVars>>

\* exportChangedPagesToDocusaurus on the pages getChangedPagesInSpace selects
ExportChanged(workspaceId, spaceId, sinceDate) ==
    /\ Len(calls) < MaxExports
    /\ \E env \in Envs(pages, spaceId, clock) :
          LET changedPages == getChangedPagesInSpace(pages, spaceId, sinceDate)
              spaceResult == exportChangedPagesToDocusaurus(settings, workspaceId, spaceId,
                                                            changedPages, pages, fs, env)
          IN  /\ fs' = spaceResult.out.tree
              /\ calls' = Append(calls, ExportCall("exportChanged", spaceId, env, spaceResult))
    /\ clock' = clock + 1
    /\ UNCHANGED <<settings, jobs, initialized, pages, runs, edits, input>>
    /\ UNCHANGED <<histVars, exportVars>>

NextSpace ==
    \/ \E w \in Workspaces, spaceId \in SpaceArgs : ExportContent(w, spaceId)
    \/ \E w \in Workspaces, spaceId \in SpaceArgs, sinceDate \in 0..1 :
          ExportChanged(w, spaceId, sinceDate)

SpecSpace == InitSpace /\ [][NextSpace]_vars

\* the parent of a page of the table (NoPage for a root)
ParentOf(id) == FindPage(pages, id).parentPageId

\* the position of a page in a write order
RECURSIVE IndexOf(_, _)
IndexOf(order, id) ==
    IF order = <<>> THEN 0
    ELSE IF Head(order) = id THEN 1
    ELSE LET k == IndexOf(Tail(order), id) IN IF k = 0 THEN 0 ELSE k + 1

\* C11 (as claimed): in every export, full or incremental, a page's file is
\* written before the file of any of its child pages.
C11_ParentBeforeChild ==
    \A k \in DOMAIN calls :
        \A c \in Range(calls[k].order) :
            ParentOf(c) \in Range(calls[k].order)
            => IndexOf(calls[k].order, ParentOf(c)) < IndexOf(calls[k].order, c)

\* ---------------------------------------------------------------------------
\* The configuration endpoints and the scheduler, over two workspaces.
\* ---------------------------------------------------------------------------

MaxFirings == 1

ConfigWorkspaces == {"w1", "w2"}

\* DocusaurusSyncInterval and one value outside it
IntervalArgs == {"manual", "hourly", "daily", "weekly"}

\* partial mappings a caller of updateSpaceMapping may pass
PartialMappings ==
    { [categoryName |-> Notes], [position |-> 7], [spaceId |-> "s2"] }

\* a configuration whose site directory is not there (any more)
GoneConfig == Config(TRUE, "/gone", FALSE, "manual", <<M1>>)

InitConfig ==
    /\ settings \in [ConfigWorkspaces ->
          {[EmptySettings EXCEPT !.docusaurusConfig = c] :
              c \in {Null} \cup {Some(c) : c \in ConfigChoices \cup {GoneConfig}}}]
    /\ jobs = {}
    /\ initialized = FALSE
    /\ pages = TreeTable
    /\ fs = EmptyFs
    /\ clock = 1
    /\ runs = <<>>
    /\ edits = [pages |-> 0, files |-> 0, configs |-> 0]
    /\ hSettings = <<>> /\ hLog = <<>>
    /\ xPc = "off" /\ xPage = NoPage /\ xCurrent = NoPage
    /\ xSegments = <<>> /\ xIters = 0 /\ xOut = Null
    /\ input = <<>> /\ calls = <<>>

\* an installed timer fires
TimerFires(workspaceId) == Len(runs) < MaxFirings /\ CronFire(workspaceId)

NextConfig ==
    \/ OnModuleInit
    \/ \E w \in ConfigWorkspaces, c \in ConfigChoices \cup {GoneConfig} :
          UpdateDocusaurusConfig(w, c)
    \/ \E w \in ConfigWorkspaces, spaceId \in SpacesTable, m \in PartialMappings :
          UpdateSpaceMapping(w, spaceId, m)
    \/ \E w \in ConfigWorkspaces, spaceId \in SpacesTable : RemoveSpaceMapping(w, spaceId)
    \/ \E w \in ConfigWorkspaces, interval \in IntervalArgs :
          ScheduleWorkspaceSync(w, interval)
    \/ \E w \in ConfigWorkspaces : UnscheduleWorkspaceSync(w)
    \/ \E w \in ConfigWorkspaces, c \in ConfigChoices : UpdateScheduledSync(w, c)
    \/ \E w \in ConfigWorkspaces : TimerFires(w)

SpecConfig == InitConfig /\ [][NextConfig]_vars

\* the jobs the registry holds for a workspace
JobsOf(workspaceId) == {job \in jobs : job.workspaceId = workspaceId}

LastCall == calls[Len(calls)]

\* C12: whatever sequence of scheduleWorkspaceSync, unscheduleWorkspaceSync,
\* updateScheduledSync, configuration updates and the start-up initialisation
\* has run, the registry holds at most one sync job per workspace, under the
\* name docusaurus-sync-<workspaceId>; a reschedule replaces the job, so after
\* scheduleWorkspaceSync the job of the workspace, if any, has the interval
\* of that call.
C12_OneJobPerWorkspace ==
    /\ \A w \in ConfigWorkspaces : Cardinality(JobsOf(w)) <= 1
    /\ \A job \in jobs : job.name = JobName(job.workspaceId)
    /\ (calls # <<>> /\ LastCall.op = "scheduleWorkspaceSync")
          => \A job \in JobsOf(LastCall.workspaceId) : job.interval = LastCall.interval

\* a daily reschedule of a workspace whose persisted configuration is hourly,
\* as the second call, while the other workspace has its job too
C12_Witness ==
    /\ calls # <<>> /\ LastCall.op = "scheduleWorkspaceSync"
    /\ LastCall.interval = "daily" /\ edits.configs = 2
    /\ ~IsNull(getDocusaurusConfig(settings, LastCall.workspaceId))
    /\ Val(getDocusaurusConfig(settings, LastCall.workspaceId)).autoSync.interval = "hourly"
    /\ \A w \in ConfigWorkspaces : Cardinality(JobsOf(w)) = 1

\* the configuration asks for a timer
WantsTimer(c) ==
    c.enabled /\ c.autoSync.enabled /\ c.autoSync.interval \in {"hourly", "daily"}

\* C13: when updateDocusaurusConfig(workspace, config) has completed, the
\* workspace has a timer exactly if config.enabled, config.autoSync.enabled and
\* the interval is hourly or daily, and the timer has that interval; with
\* manual or with auto-sync off no timer remains, whatever was installed
\* before.  Every run started by a timer is incremental.
C13_TimerFollowsConfig ==
    /\ (calls # <<>> /\ LastCall.op = "updateDocusaurusConfig" /\ LastCall.ok)
          => /\ HasJob(jobs, LastCall.workspaceId) <=> WantsTimer(LastCall.config)
             /\ \A job \in JobsOf(LastCall.workspaceId) :
                    job.interval = LastCall.config.autoSync.interval
    /\ \A r \in DOMAIN runs : runs[r].trigger = "cron" => runs[r].incremental

\* the timer of a workspace has fired, and a later update that turns
\* auto-sync off has left the workspace without a timer
C13_Witness ==
    /\ calls # <<>> /\ LastCall.op = "updateDocusaurusConfig" /\ LastCall.ok
    /\ LastCall.config.enabled /\ ~LastCall.config.autoSync.enabled
    /\ ~HasJob(jobs, LastCall.workspaceId)
    /\ \E r \in DOMAIN runs :
          /\ runs[r].trigger = "cron" /\ runs[r].incremental
          /\ runs[r].workspaceId = LastCall.workspaceId

\* C14: when onModuleInit has completed (and before any later call), every
\* workspace whose persisted configuration has the integration and auto-sync
\* enabled with an hourly or daily interval has its timer, with that interval,
\* and no other workspace has one.
C14_TimersAfterInit ==
    (initialized /\ calls = <<>>)
      => \A w \in ConfigWorkspaces :
            LET config == getDocusaurusConfig(settings, w)
            IN  /\ HasJob(jobs, w) <=> (~IsNull(config) /\ WantsTimer(Val(config)))
                /\ \A job \in JobsOf(w) : job.interval = Val(config).autoSync.interval

\* after start-up one workspace has its hourly timer and the other, whose
\* auto-sync is configured but whose integration is off, has none
C14_Witness ==
    /\ initialized /\ calls = <<>>
    /\ \E w, v \in ConfigWorkspaces :
          /\ \E job \in JobsOf(w) : job.interval = "hourly"
          /\ ~IsNull(getDocusaurusConfig(settings, v))
          /\ Val(getDocusaurusConfig(settings, v)).autoSync.enabled
          /\ ~Val(getDocusaurusConfig(settings, v)).enabled
          /\ ~HasJob(jobs, v)

\* C18 (as claimed): the persisted configuration of a workspace never holds
\* two mappings with the same spaceId, whatever calls of updateSpaceMapping,
\* removeSpaceMapping and updateDocusaurusConfig were made, a partial mapping
\* that carries a spaceId field included.
C18_OneMappingPerSpace ==
    \A w \in ConfigWorkspaces :
        LET config == getDocusaurusConfig(settings, w)
        IN  ~IsNull(config) =>
              \A i, k \in DOMAIN Val(config).spaceMappings :
                  Val(config).spaceMappings[i].spaceId = Val(config).spaceMappings[k].spaceId
                  => i = k

\* C15 (as claimed): a started sync run is never caught in a step that does
\* not return (it is in its loop over the spaces, storing its result, or has
\* returned), so it runs to completion, and the result it returns has status
\* success, partial or failed.
C15_RunFinishes ==
    \A r \in DOMAIN runs :
        /\ runs[r].pc \in {"spaces", "store", "done"}
        /\ ~IsNull(runs[r].result)
              => Val(runs[r].result).status \in {"success", "partial", "failed"}

\* ---------------------------------------------------------------------------
\* Full syncs of one space whose pages form a forest.
\* ---------------------------------------------------------------------------

\* the four pages of the space, by title; page i may hang under an earlier page
ForestTitles == << <<"R">>, <<"C","1">>, <<"G">>, <<"C","2">> >>
ForestIds == <<"p1", "p2", "p3", "p4">>

ParentChoices(i) == {NoPage} \cup {ForestIds[k] : k \in 1..(i - 1)}

ForestTables ==
    {[i \in DOMAIN ForestIds |-> Page(ForestIds[i], "s1", parent[i], ForestTitles[i], {})] :
        parent \in {f \in [DOMAIN ForestIds -> {NoPage} \cup Range(ForestIds)] :
                        \A i \in DOMAIN ForestIds : f[i] \in ParentChoices(i)}}

\* the forests of the first three pages with a fourth page whose parent is a
\* page that is not in the space
OrphanTables ==
    {[table EXCEPT ![Len(ForestIds)].parentPageId = "p9"] :
        table \in {t \in ForestTables : t[Len(ForestIds)].parentPageId = NoPage}}

\* the first three pages as roots and a fourth page whose title gives the
\* slug of the second page ("c1"), or the second and the fourth page untitled
TwinTables ==
    {[table EXCEPT ![4].title = twin[2], ![2].title = twin[1]] :
        table \in {t \in ForestTables : t[2].parentPageId = NoPage /\ t[3].parentPageId = NoPage},
        twin \in {<< <<"C","1">>, <<"c","1">> >>, << <<>>, <<>> >>}}

\* every page's parent is a page of the table
ParentsInSet(table) ==
    \A i \in DOMAIN table :
        table[i].parentPageId # NoPage => HasPage(table, table[i].parentPageId)

\* R -> {C1 -> {G}, C2}
ExampleTree ==
    << Page("p1", "s1", NoPage, <<"R">>, {}),
       Page("p2", "s1", "p1", <<"C","1">>, {}),
       Page("p3", "s1", "p2", <<"G">>, {}),
       Page("p4", "s1", "p1", <<"C","2">>, {}) >>

InitTree ==
    /\ settings = [w \in Workspaces |->
          [EmptySettings EXCEPT
             !.docusaurusConfig = Some(Config(TRUE, "/site", TRUE, "hourly", <<M1>>))]]
    /\ pages \in ForestTables \cup OrphanTables \cup TwinTables
    /\ jobs = {}
    /\ initialized = FALSE
    /\ fs = EmptyFs
    /\ clock = 1
    /\ runs = <<>>
    /\ edits = [pages |-> 0, files |-> 0, configs |-> 0]
    /\ hSettings = <<>> /\ hLog = <<>>
    /\ xPc = "off" /\ xPage = NoPage /\ xCurrent = NoPage
    /\ xSegments = <<>> /\ xIters = 0 /\ xOut = Null
    /\ input = <<>> /\ calls = <<>>

NextTree ==
    \/ OnModuleInit
    \/ \E w \in Workspaces : OverlappingManualSync(w)
    \/ \E r \in 1..MaxOverlap : SyncSpace(r)
    \/ \E r \in 1..MaxOverlap : FinishSync(r)
    \/ \E r \in 1..MaxOverlap : StoreWrite(r)

SpecTree == InitTree /\ [][NextTree]_vars

\* the directory of a page below the category directory: its parent's directory
\* and, in it, the directory named after the parent
RECURSIVE DirOf(_, _)
DirOf(table, page) ==
    IF page.parentPageId = NoPage THEN <<>>
    ELSE LET parent == FindPage(table, page.parentPageId)
         IN  Append(DirOf(table, parent), sanitizeFilename(TitleOr(parent)))

\* the file of a page: <dir>/<slug>/index.md with children, <dir>/<slug>.md without
FileOf(category, table, page) ==
    LET slug == sanitizeFilename(TitleOr(page))
    IN  <<category>> \o DirOf(table, page)
          \o (IF HasChildren(table, page) THEN <<slug, IndexMd>> ELSE <<slug \o DotMd>>)

\* a full run that has built its result, in which no space and no page failed
CleanFullRun(run) ==
    /\ ~run.incremental /\ Finished(run) /\ ~IsNull(run.result)
    /\ Val(run.result).status = "success" /\ run.failed = {}

GuidesDir == <<"g","u","i","d","e","s">>

\* C16: in a full sync of a space whose pages form a tree, in which nothing
\* failed, the page files written are exactly: for a page with a child,
\* <its parent's directory>/<sanitized title>/index.md, and for a page without
\* children <its parent's directory>/<sanitized title>.md (root pages directly
\* under the category directory), next to the category's _category_.json.  For
\* the tree R -> {C1 -> {G}, C2} these are r/index.md, r/c1/index.md,
\* r/c1/g.md and r/c2.md under guides, and the stats are totalSpaces 1,
\* successfulSpaces 1, totalPages 4, successfulPages 4, failedPages 0.
C16_TreeLayout ==
    \A r \in DOMAIN runs :
        CleanFullRun(runs[r]) /\ ParentsInSet(pages) =>
          /\ runs[r].written
                = {FileOf(GuidesDir, pages, pages[i]) : i \in DOMAIN pages}
          /\ DOMAIN fs.files
                = runs[r].written \cup {<<GuidesDir, CategoryJson>>}
          /\ pages = ExampleTree =>
                /\ runs[r].written
                      = { <<GuidesDir, <<"r">>, IndexMd>>,
                          <<GuidesDir, <<"r">>, <<"c","1">>, IndexMd>>,
                          <<GuidesDir, <<"r">>, <<"c","1">>, <<"g",".","m","d">> >>,
                          <<GuidesDir, <<"r">>, <<"c","2",".","m","d">> >> }
                /\ LET stats == Val(runs[r].result).stats
                   IN  /\ stats.totalSpaces = 1 /\ stats.successfulSpaces = 1
                       /\ stats.totalPages = 4 /\ stats.successfulPages = 4
                       /\ stats.failedPages = 0

\* a clean full sync of the example tree has returned
C16_Witness ==
    /\ pages = ExampleTree
    /\ \E r \in DOMAIN runs : CleanFullRun(runs[r]) /\ runs[r].pc = "done"
    /\ Cardinality(DOMAIN fs.files) = 5

\* what the files of a tree hold, whenever they were written
ContentOf(tree) == [path \in DOMAIN tree.files |-> tree.files[path].content]

\* calls k and k + 1 are full exports of the same space that both completed
\* with every page rendered and written
ExportedTwice(k) ==
    /\ k \in DOMAIN calls /\ k + 1 \in DOMAIN calls
    /\ calls[k].op = "exportContent" /\ calls[k + 1].op = "exportContent"
    /\ calls[k].spaceId = calls[k + 1].spaceId
    /\ calls[k].success /\ calls[k + 1].success
    /\ calls[k].failed = {} /\ calls[k + 1].failed = {}

\* C17: when a space is exported twice in a row, with the pages and the
\* mapping unchanged and both exports completing, the tree holds the same
\* files with the same content after the second export as after the first.
C17_ReexportSameTree ==
    \A k \in DOMAIN calls :
        ExportedTwice(k) => ContentOf(calls[k + 1].after) = ContentOf(calls[k].after)

\* the space with the two-page tree was exported twice, and the second export
\* wrote its files again, at a later time
C17_Witness ==
    /\ ExportedTwice(1)
    /\ calls[1].spaceId = "s1"
    /\ Len(calls[1].order) = 2 /\ Len(calls[2].order) = 2
    /\ \E path \in DOMAIN calls[2].after.files :
          calls[2].after.files[path].mtime > calls[1].after.files[path].mtime

\* C19 (as claimed): exportContentToDocusaurus returns a result for every
\* call; when anything failed in it (the setup, the lookup of the space or its
\* mapping, the category write, or the render or write of a page) the result
\* has success = false and a non-empty message, and success = true is
\* returned only when the export completed.
C19_FailureReported ==
    \A k \in DOMAIN calls :
        calls[k].op = "exportContent" =>
          /\ ~calls[k].success => calls[k].message # ""
          /\ (calls[k].env.failCategory \/ calls[k].failed # {}) => ~calls[k].success

\* ---------------------------------------------------------------------------
\* sanitizeFilename applied, and applied again to its own result.
\* ---------------------------------------------------------------------------

MaxLen == 3
MaxApply == 2

\* a capital, a small letter, a digit, the underscore, the hyphen, white space
\* and two characters outside [\w\s-]
TitleChars == {"A", "b", "1", "_", "-", " ", "\t", "!", "."}

TitleStrings == UNION {[1..n -> TitleChars] : n \in 0..MaxLen}

InitSanitize ==
    /\ input \in TitleStrings
    /\ calls = <<>>
    /\ settings = [w \in Workspaces |-> EmptySettings]
    /\ jobs = {}
    /\ initialized = FALSE
    /\ pages = <<>>
    /\ fs = EmptyFs
    /\ clock = 1
    /\ runs = <<>>
    /\ edits = [pages |-> 0, files |-> 0, configs |-> 0]
    /\ hSettings = <<>> /\ hLog = <<>>
    /\ xPc = "off" /\ xPage = NoPage /\ xCurrent = NoPage
    /\ xSegments = <<>> /\ xIters = 0 /\ xOut = Null

\* sanitizeFilename of the input, then of the result before
Sanitize ==
    /\ Len(calls) < MaxApply
    /\ calls' = Append(calls,
          sanitizeFilename(IF calls = <<>> THEN input ELSE calls[Len(calls)]))
    /\ UNCHANGED <<syncVars, histVars, exportVars, input>>

NextSanitize == Sanitize

SpecSanitize == InitSanitize /\ [][NextSanitize]_vars

\* C20: sanitizeFilename is idempotent: applied to its own result it returns
\* that result.
C20_SanitizeIdempotent ==
    \A k \in DOMAIN calls : k > 1 => calls[k] = calls[k - 1]

\* a title with a capital, white space and a character that is removed has
\* been sanitized twice, and the first application changed it
C20_Witness ==
    /\ Len(calls) = 2
    /\ "A" \in Range(input) /\ " " \in Range(input) /\ "!" \in Range(input)
    /\ calls[1] # input /\ calls[1] # <<>>

\* C21 (as claimed): whatever the input, the result of sanitizeFilename holds
\* only small letters, digits and hyphens: no capital, no underscore, no white
\* space.
C21_OnlySlugChars ==
    \A k \in DOMAIN calls :
        \A c \in Range(calls[k]) : c \in Range(LowerSeq) \cup Digits \cup {"-"}

\* C21 (amended): whatever the input, the result of sanitizeFilename holds
\* only small letters, digits, hyphens and underscores: it is lower-case and
\* has no white space, but an underscore of the input is kept.
C21_OnlyLowerWordChars ==
    \A k \in DOMAIN calls :
        \A c \in Range(calls[k]) : c \in Range(LowerSeq) \cup Digits \cup {"-", "_"}

\* a title with a capital, white space and an underscore has been sanitized
C21_Witness ==
    /\ Len(calls) >= 1
    /\ "A" \in Range(input) /\ " " \in Range(input) /\ "_" \in Range(input)
    /\ "a" \in Range(calls[1]) /\ "_" \in Range(calls[1])

\* ---------------------------------------------------------------------------
\* Content analysis: keywords, TF-IDF vectors, clusters and suggestions.
\* A document's text is taken as already split into lower-case words.
\* ---------------------------------------------------------------------------

MaxDocs == 3
MaxDocWords == 2
MaxVocabulary == 1000

\* two ordinary words, two stop words (one of them shorter than three
\* characters) and a word of twenty characters
Words == {"api", "guide", "the", "to", "internationalization"}

\* isStopWord / the stopWords set of extractKeywords, on Words
isStopWord(word) == word \in {"the", "to"}

DocIds == <<"d1", "d2", "d3", "d4", "d5">>

Document(id, words, parentPageId) ==
    [id |-> id, words |-> words, spaceId |-> "s1", parentPageId |-> parentPageId]

DocTexts == UNION {[1..n -> Words] : n \in 0..MaxDocWords}

\* a corpus of root pages with the given texts (none: the empty corpus)
FlatCorpus(t) == [i \in DOMAIN t |-> Document(DocIds[i], t[i], NoPage)]

\* a corpus of a page and its child pages
\* two documents that share "api" and have many words of their own, and
\* two short ones
RichCorpus(n, t) ==
    FlatCorpus(<<<<"api", "rest", "auth", "token", "login">>,
                 <<"api">> \o SubSeq(<<"cache", "queue", "index", "shard">>, 1, n),
                 t[1], t[2]>>)
StarCorpus(t) ==
    [i \in DOMAIN t |-> Document(DocIds[i], t[i], IF i = 1 THEN NoPage ELSE DocIds[1])]

\* tokenize: the non-empty words of the text
tokenize(doc) == SelectSeq(doc.words, LAMBDA w : w # "")

\* the keys of a Map filled in this order: first occurrences
RECURSIVE Distinct(_)
Distinct(s) ==
    IF s = <<>> THEN <<>>
    ELSE LET rest == Distinct(SubSeq(s, 1, Len(s) - 1))
         IN  IF s[Len(s)] \in Range(rest) THEN rest ELSE Append(rest, s[Len(s)])

Count(s, w) == Cardinality({i \in DOMAIN s : s[i] = w})

\* .slice(0, n)
Take(s, n) == SubSeq(s, 1, Min(Len(s), n))

\* entries.sort((a, b) => b[1] - a[1]): stable, by the number, descending
RECURSIVE SortEntriesDesc(_)
SortEntriesDesc(entries) ==
    IF entries = <<>> THEN <<>>
    ELSE LET rest == SortEntriesDesc(SubSeq(entries, 1, Len(entries) - 1))
             e == entries[Len(entries)]
             before == SelectSeq(rest, LAMBDA x : x[2] >= e[2])
             after == SelectSeq(rest, LAMBDA x : x[2] < e[2])
         IN  before \o <<e>> \o after

\* the tokens of all documents, one document after the other
RECURSIVE AllTokens(_)
AllTokens(documents) ==
    IF documents = <<>> THEN <<>>
    ELSE tokenize(Head(documents)) \o AllTokens(Tail(documents))

\* a buildVocabulary without the frequency filter
buildVocabulary_keepsSingles(documents) ==
    LET all == AllTokens(documents)
        keys == Distinct(all)
        wordFreq == [i \in DOMAIN keys |-> <<keys[i], Count(all, keys[i])>>]
        kept == SelectSeq(wordFreq, LAMBDA e : Len(e[1]) > 2 /\ Len(e[1]) < 20)
        top == Take(SortEntriesDesc(kept), MaxVocabulary)
    IN  [i \in DOMAIN top |-> top[i][1]]

\* buildVocabulary
buildVocabulary(documents) ==
    LET all == AllTokens(documents)
        keys == Distinct(all)
        wordFreq == [i \in DOMAIN keys |-> <<keys[i], Count(all, keys[i])>>]
        kept == SelectSeq(wordFreq,
                   LAMBDA e : e[2] > 1 /\ Len(e[1]) > 2 /\ Len(e[1]) < 20)
        top == Take(SortEntriesDesc(kept), MaxVocabulary)
    IN  [i \in DOMAIN top |-> top[i][1]]

\* Math.log(n / d) in tenths, rounded: 0 exactly when d = n
Log10x(n, d) ==
    IF d = n THEN 0
    ELSE CASE n = 2 -> 7
           [] n = 3 -> (IF d = 1 THEN 11 ELSE 4)
           [] n = 4 -> (IF d = 1 THEN 14 ELSE IF d = 2 THEN 7 ELSE 3)
           [] OTHER -> (IF d = 1 THEN 16 ELSE IF d = 2 THEN 9 ELSE IF d = 3 THEN 5 ELSE 2)

\* calculateTFIDF.  Component i of the vector is v[i] / (10 * wordCount); a
\* document without words has wordCount 0 and every component 0 / 0 = NaN.
calculateTFIDF(doc, allDocs, vocabulary) ==
    LET words == tokenize(doc)
        wordCount == Len(words)
        docsWithTerm(term) ==
            Cardinality({i \in DOMAIN allDocs : term \in Range(tokenize(allDocs[i]))})
        idf(term) ==
            Log10x(Len(allDocs), IF docsWithTerm(term) = 0 THEN 1 ELSE docsWithTerm(term))
    IN  [nan |-> wordCount = 0 /\ vocabulary # <<>>,
         wordCount |-> wordCount,
         v |-> [i \in DOMAIN vocabulary |->
                   Count(words, vocabulary[i]) * idf(vocabulary[i])]]

\* generateTFIDFVectors: the vector of each document, in the order of the corpus
generateTFIDFVectors(documents) ==
    LET vocabulary == buildVocabulary(documents)
    IN  [i \in DOMAIN documents |-> calculateTFIDF(documents[i], documents, vocabulary)]

RECURSIVE SumOver(_, _)
SumOver(f, todo) ==
    IF todo = {} THEN 0
    ELSE LET i == CHOOSE i \in todo : TRUE IN f[i] + SumOver(f, todo \ {i})

\* cosineSimilarity.  The number returned is NaN when nan holds, 0 when a norm
\* is 0 or the lengths differ, and dot / sqrt(normA * normB) otherwise (the
\* positive scale of a vector does not change it).
cosineSimilarity(vecA, vecB) ==
    LET dot == SumOver([i \in DOMAIN vecA.v |-> vecA.v[i] * vecB.v[i]], DOMAIN vecA.v)
        normA == SumOver([i \in DOMAIN vecA.v |-> vecA.v[i] * vecA.v[i]], DOMAIN vecA.v)
        normB == SumOver([i \in DOMAIN vecB.v |-> vecB.v[i] * vecB.v[i]], DOMAIN vecB.v)
        zero == [nan |-> FALSE, dot |-> 0, normA |-> 0, normB |-> 0]
    IN  IF Len(vecA.v) # Len(vecB.v) THEN zero
        ELSE IF (~vecA.nan /\ normA = 0) \/ (~vecB.nan /\ normB = 0) THEN zero
        ELSE IF vecA.nan \/ vecB.nan
             THEN [nan |-> TRUE, dot |-> 0, normA |-> 0, normB |-> 0]
        ELSE [nan |-> FALSE, dot |-> dot, normA |-> normA, normB |-> normB]

\* similarity > 0.5 and similarity = 1 on such a number (dot is never negative)
ExceedsHalf(c) == ~c.nan /\ c.normA * c.normB > 0 /\ 4 * c.dot * c.dot > c.normA * c.normB
IsOne(c) == ~c.nan /\ c.normA * c.normB > 0 /\ c.dot * c.dot = c.normA * c.normB

MaxPageKeywords == 20
MaxTopKeywords == 5
MaxClusterTags == 8

\* extractKeywords: the words longer than two characters that are no stop
\* words, the first twenty
extractKeywords(doc) ==
    Take(SelectSeq(doc.words, LAMBDA w : Len(w) > 2 /\ ~isStopWord(w)), MaxPageKeywords)

\* calculateSimilarity: |intersection| / |union| (0 when the union is empty)
calculateSimilarity(tags1, tags2) ==
    [num |-> Cardinality(Range(tags1) \cap Range(tags2)),
     den |-> Cardinality(Range(tags1) \cup Range(tags2))]

\* similarity > 0.3
ExceedsThreeTenths(sim) == sim.den > 0 /\ 10 * sim.num > 3 * sim.den

\* findCommonTags
findCommonTags(tags1, tags2) == SelectSeq(tags2, LAMBDA tag : tag \in Range(tags1))

\* extractTopKeywords: the five most frequent words longer than two
\* characters that are no stop words
extractTopKeywords(doc) ==
    LET words == SelectSeq(tokenize(doc), LAMBDA w : ~isStopWord(w) /\ Len(w) > 2)
        keys == Distinct(words)
        wordFreq == [i \in DOMAIN keys |-> <<keys[i], Count(words, keys[i])>>]
        top == Take(SortEntriesDesc(wordFreq), MaxTopKeywords)
    IN  [i \in DOMAIN top |-> top[i][1]]

\* a merge that keeps every keyword
mergeKeywords_uncapped(keywords1, keywords2) == Distinct(keywords1 \o keywords2)

\* mergeKeywords
mergeKeywords(keywords1, keywords2) == Take(Distinct(keywords1 \o keywords2), MaxClusterTags)

\* a cluster that keeps every candidate, also one of a single page
KeepCluster_always(cluster) == TRUE

\* if (cluster.pages.length > 1) clusters.push(cluster)
KeepCluster(cluster) == Len(cluster.pages) > 1

\* the integer square root of a number up to 100
Isqrt(x) == CHOOSE r \in 0..10 : r * r <= x /\ x < (r + 1) * (r + 1)

\* a similarity in thousandths, to the tenth: 1000 * dot / sqrt(normA * normB)
Thousandths(c) ==
    IF c.normA * c.normB = 0 THEN 0
    ELSE 100 * Isqrt((100 * c.dot * c.dot) \div (c.normA * c.normB))

\* the tags of a cluster: commonTags folded over the members that joined
RECURSIVE FoldTags(_, _, _, _)
FoldTags(Op(_, _), tags, members, tagsOf) ==
    IF members = <<>> THEN tags
    ELSE FoldTags(Op, Op(tags, tagsOf[Head(members)]), Tail(members), tagsOf)

\* clusterContent, from the page at position i on.  pageTags[i] are the tags
\* of page i; pages are named by their position in the corpus.
RECURSIVE ClusterContentFrom(_, _, _, _)
ClusterContentFrom(pageTags, i, processed, clusters) ==
    IF i > Len(pageTags) THEN clusters
    ELSE IF i \in processed
         THEN ClusterContentFrom(pageTags, i + 1, processed, clusters)
    ELSE
      LET candidates == SelectSeq([j \in DOMAIN pageTags |-> j],
                           LAMBDA j : j # i /\ j \notin processed)
          similar == SelectSeq(candidates,
                        LAMBDA j : ExceedsThreeTenths(
                                      calculateSimilarity(pageTags[i], pageTags[j])))
          cluster == [pages |-> <<i>> \o similar,
                      commonTags |-> FoldTags(findCommonTags, pageTags[i], similar, pageTags),
                      similarity |-> 1000]
      IN  ClusterContentFrom(pageTags, i + 1, processed \cup Range(cluster.pages),
              IF KeepCluster(cluster) THEN Append(clusters, cluster) ELSE clusters)

clusterContent(pageTags) == ClusterContentFrom(pageTags, 1, {}, <<>>)

\* calculateClusterCohesion: the mean of the pairwise similarities
calculateClusterCohesion(cluster, vectors) ==
    LET pairs == {p \in (DOMAIN cluster.pages) \X (DOMAIN cluster.pages) : p[1] < p[2]}
        sims == [p \in pairs |->
                    Thousandths(cosineSimilarity(vectors[cluster.pages[p[1]]],
                                                 vectors[cluster.pages[p[2]]]))]
    IN  IF Len(cluster.pages) < 2 THEN 1000
        ELSE SumOver(sims, pairs) \div Cardinality(pairs)

\* clusters.sort((a, b) => b.similarity - a.similarity): stable
RECURSIVE SortBySimilarityDesc(_)
SortBySimilarityDesc(clusters) ==
    IF clusters = <<>> THEN <<>>
    ELSE LET rest == SortBySimilarityDesc(SubSeq(clusters, 1, Len(clusters) - 1))
             c == clusters[Len(clusters)]
         IN  SelectSeq(rest, LAMBDA x : x.similarity >= c.similarity) \o <<c>>
               \o SelectSeq(rest, LAMBDA x : x.similarity < c.similarity)

\* performSemanticClustering, from the document at position i on
RECURSIVE SemanticClusteringFrom(_, _, _, _, _)
SemanticClusteringFrom(documents, vectors, i, processed, clusters) ==
    IF i > Len(documents) THEN clusters
    ELSE IF i \in processed
         THEN SemanticClusteringFrom(documents, vectors, i + 1, processed, clusters)
    ELSE
      LET candidates == SelectSeq([j \in DOMAIN documents |-> j],
                           LAMBDA j : j # i /\ j \notin processed)
          similar == SelectSeq(candidates,
                        LAMBDA j : ExceedsHalf(cosineSimilarity(vectors[i], vectors[j])))
          topKeywords == [j \in DOMAIN documents |-> extractTopKeywords(documents[j])]
          joined == [pages |-> <<i>> \o similar,
                     commonTags |-> FoldTags(mergeKeywords, topKeywords[i], similar,
                                             topKeywords),
                     similarity |-> 1000]
          cluster == [joined EXCEPT
                        !.similarity = calculateClusterCohesion(joined, vectors)]
      IN  SemanticClusteringFrom(documents, vectors, i + 1,
              processed \cup Range(cluster.pages),
              IF KeepCluster(joined) THEN Append(clusters, cluster) ELSE clusters)

performSemanticClustering(documents, vectors) ==
    SortBySimilarityDesc(SemanticClusteringFrom(documents, vectors, 1, {}, <<>>))

\* the keyword lists of the named pages, one after the other
RECURSIVE MemberKeywords(_, _)
MemberKeywords(members, keywordsOf) ==
    IF members = <<>> THEN <<>>
    ELSE keywordsOf[Head(members)] \o MemberKeywords(Tail(members), keywordsOf)

MaxKeywords == 50
MaxSpaceKeywords == 5
MaxSemanticKeywords == 50
MaxTopicKeywords == 10
MaxSuggestions == 10

\* A JavaScript number that is a confidence: NaN, or a value in thousandths
Num(milli) == [nan |-> FALSE, milli |-> milli]
NaN == [nan |-> TRUE, milli |-> 0]

\* Math.min(limit, x): NaN when x is NaN
MathMin(limit, x) == IF x.nan THEN NaN ELSE Num(Min(limit, x.milli))

\* the keywords of performContentAnalysis: every page keyword with its number
\* of occurrences, most frequent first, the first fifty
ContentKeywords(pageTags) ==
    LET all == MemberKeywords([i \in DOMAIN pageTags |-> i], pageTags)
        keys == Distinct(all)
    IN  Take(SortEntriesDesc([i \in DOMAIN keys |-> <<keys[i], Count(all, keys[i])>>]),
             MaxKeywords)

\* extractSemanticKeywords: score = tf * log(N / df), in tenths
extractSemanticKeywords(documents) ==
    LET all == AllTokens(documents)
        terms == Distinct(all)
        df(term) == Cardinality({i \in DOMAIN documents :
                                   term \in Range(tokenize(documents[i]))})
        tfidfScores == [i \in DOMAIN terms |->
                          <<terms[i],
                            Count(all, terms[i]) * Log10x(Len(documents), df(terms[i]))>>]
        kept == SelectSeq(tfidfScores,
                    LAMBDA e : Len(e[1]) > 2 /\ Len(e[1]) < 20 /\ ~isStopWord(e[1]))
    IN  Take(SortEntriesDesc(kept), MaxSemanticKeywords)

\* performContentAnalysis: the tags of the pages and their clusters
performContentAnalysis(documents) ==
    LET pageTags == [i \in DOMAIN documents |-> extractKeywords(documents[i])]
    IN  [keywords |-> ContentKeywords(pageTags), pageTags |-> pageTags,
         clusters |-> clusterContent(pageTags)]

\* performIntelligentAnalysis
performIntelligentAnalysis(documents) ==
    LET tfidfVectors == CHOOSE vectors \in {generateTFIDFVectors(documents)} : TRUE
    IN  [vectors |-> tfidfVectors,
         clusters |-> performSemanticClustering(documents, tfidfVectors),
         keywords |-> extractSemanticKeywords(documents)]

\* generateClusterSuggestion: no suggestion (null) for a cluster without tags
generateClusterSuggestion(cluster) ==
    IF cluster.commonTags = <<>> THEN <<>>
    ELSE <<[type |-> "content-cluster",
            confidence |-> MathMin(950, Num((cluster.similarity * 7) \div 10
                                              + 100 * Len(cluster.commonTags))),
            pages |-> cluster.pages]>>

\* the suggestions of the clusters of three or more pages
RECURSIVE ClusterSuggestions(_)
ClusterSuggestions(clusters) ==
    IF clusters = <<>> THEN <<>>
    ELSE (IF Len(Head(clusters).pages) >= 3 THEN generateClusterSuggestion(Head(clusters))
          ELSE <<>>) \o ClusterSuggestions(Tail(clusters))

\* generateTopicBasedSuggestions: score / keywords[0][1] is 0 / 0 = NaN when
\* the best score is 0
RECURSIVE TopicSuggestions(_, _, _)
TopicSuggestions(topKeywords, keywords, documents) ==
    IF topKeywords = <<>> THEN <<>>
    ELSE
      LET keyword == Head(topKeywords)[1]
          score == Head(topKeywords)[2]
          relatedPages == SelectSeq([i \in DOMAIN documents |-> i],
                              LAMBDA i : keyword \in Range(tokenize(documents[i])))
          ratio == IF keywords[1][2] = 0 THEN NaN
                   ELSE Num((score * 800) \div keywords[1][2])
      IN  (IF Len(relatedPages) >= 3
           THEN <<[type |-> "keyword-based", confidence |-> MathMin(800, ratio),
                   pages |-> relatedPages]>>
           ELSE <<>>) \o TopicSuggestions(Tail(topKeywords), keywords, documents)

generateTopicBasedSuggestions(keywords, documents) ==
    TopicSuggestions(Take(keywords, MaxTopicKeywords), keywords, documents)

\* generateHierarchyBasedSuggestions: a page of the corpus with three or more
\* children, in the order the parents first occur
generateHierarchyBasedSuggestions(documents) ==
    LET positions == [i \in DOMAIN documents |-> i]
        children(i) == SelectSeq(positions,
                          LAMBDA j : documents[j].parentPageId = documents[i].id)
        parents == SelectSeq(positions, LAMBDA i : Len(children(i)) >= 3)
        first == SelectSeq(positions, LAMBDA j :
                     /\ documents[j].parentPageId # NoPage
                     /\ \A h \in 1..(j - 1) :
                          documents[h].parentPageId # documents[j].parentPageId)
        ordered == SelectSeq(
                     [n \in DOMAIN first |->
                        IF \E i \in Range(parents) :
                             documents[i].id = documents[first[n]].parentPageId
                        THEN CHOOSE i \in Range(parents) :
                               /\ documents[i].id = documents[first[n]].parentPageId
                               /\ \A h \in Range(parents) :
                                    documents[h].id = documents[i].id => i <= h
                        ELSE 0],
                     LAMBDA i : i # 0)
    IN  [n \in DOMAIN ordered |->
           [type |-> "space-based", confidence |-> Num(750),
            pages |-> <<ordered[n]>> \o children(ordered[n])]]

\* the cluster suggestions of generateCategorySuggestions
RECURSIVE CategoryClusterSuggestions(_)
CategoryClusterSuggestions(clusters) ==
    IF clusters = <<>> THEN <<>>
    ELSE (IF Len(Head(clusters).pages) >= 3 /\ Len(Head(clusters).commonTags) > 0
          THEN <<[type |-> "content-cluster",
                  confidence |-> MathMin(900, Num(200 * Len(Head(clusters).commonTags))),
                  pages |-> Head(clusters).pages]>>
          ELSE <<>>) \o CategoryClusterSuggestions(Tail(clusters))

\* the space suggestions of generateCategorySuggestions
RECURSIVE SpaceSuggestions(_, _, _)
SpaceSuggestions(spaces, documents, keywords) ==
    IF spaces = <<>> THEN <<>>
    ELSE
      LET spacePages == SelectSeq([i \in DOMAIN documents |-> i],
                            LAMBDA i : documents[i].spaceId = Head(spaces))
          found == Take(SelectSeq(keywords, LAMBDA e :
                            \E n \in DOMAIN spacePages :
                               e[1] \in Range(documents[spacePages[n]].words)),
                        MaxSpaceKeywords)
      IN  (IF Len(spacePages) > 0 /\ Len(found) > 0
           THEN <<[type |-> "space-based", confidence |-> Num(800),
                   pages |-> spacePages]>>
           ELSE <<>>) \o SpaceSuggestions(Tail(spaces), documents, keywords)

\* suggestions.sort((a, b) => b.confidence - a.confidence) when no confidence
\* is NaN: stable, highest first
RECURSIVE SortByConfidenceDesc(_)
SortByConfidenceDesc(suggestions) ==
    IF suggestions = <<>> THEN <<>>
    ELSE LET rest == SortByConfidenceDesc(SubSeq(suggestions, 1, Len(suggestions) - 1))
             x == suggestions[Len(suggestions)]
         IN  SelectSeq(rest, LAMBDA y : y.confidence.milli >= x.confidence.milli)
               \o <<x>>
               \o SelectSeq(rest, LAMBDA y : y.confidence.milli < x.confidence.milli)

\* The orders the sort can leave the list in.  With a NaN confidence the
\* comparator returns NaN for some pairs and is no consistent comparator: the
\* order is then up to the implementation.
SortOutcomes(suggestions) ==
    IF \E n \in DOMAIN suggestions : suggestions[n].confidence.nan
    THEN {[n \in DOMAIN suggestions |-> suggestions[order[n]]] :
            order \in {f \in [DOMAIN suggestions -> DOMAIN suggestions] :
                         \A a, b \in DOMAIN suggestions : a # b => f[a] # f[b]}}
    ELSE {SortByConfidenceDesc(suggestions)}

\* generateCategorySuggestions, before its sort
generateCategorySuggestions(spaces, documents, analysis) ==
    CategoryClusterSuggestions(analysis.clusters)
      \o SpaceSuggestions(spaces, documents, analysis.keywords)

\* generateIntelligentSuggestions, before its sort and cut
generateIntelligentSuggestions(documents, analysis) ==
    ClusterSuggestions(analysis.clusters)
      \o generateTopicBasedSuggestions(analysis.keywords, documents)
      \o generateHierarchyBasedSuggestions(documents)

InitAnalysis ==
    /\ \/ \E n \in 0..MaxDocs : \E t \in [1..n -> DocTexts] : input = FlatCorpus(t)
       \/ \E t \in [1..4 -> {<<>>, <<"api">>, <<"guide">>}] : input = StarCorpus(t)
       \/ \E n \in 0..4 : \E t \in [1..2 -> DocTexts] : input = RichCorpus(n, t)
    /\ calls = <<>>
    /\ settings = [w \in Workspaces |-> EmptySettings]
    /\ jobs = {}
    /\ initialized = FALSE
    /\ pages = <<>>
    /\ fs = EmptyFs
    /\ clock = 1
    /\ runs = <<>>
    /\ edits = [pages |-> 0, files |-> 0, configs |-> 0]
    /\ hSettings = <<>> /\ hLog = <<>>
    /\ xPc = "off" /\ xPage = NoPage /\ xCurrent = NoPage
    /\ xSegments = <<>> /\ xIters = 0 /\ xOut = Null

\* a call of one of the two analyses on the corpus, once each
AnalysisCall(result) ==
    /\ \A k \in DOMAIN calls : calls[k].op # result.op
    /\ calls' = Append(calls, result)
    /\ UNCHANGED <<syncVars, histVars, exportVars, input>>

\* suggestCategories: performIntelligentAnalysis, then
\* generateIntelligentSuggestions with its sort and its cut to ten
IntelligentSuggestions ==
    \E analysis \in {performIntelligentAnalysis(input)} :
      \E merged \in {generateIntelligentSuggestions(input, analysis)} :
        \E sorted \in SortOutcomes(merged) :
          AnalysisCall([op |-> "intelligent", vocabulary |-> buildVocabulary(input),
                        vectors |-> analysis.vectors, clusters |-> analysis.clusters,
                        keywords |-> analysis.keywords, merged |-> merged,
                        suggestions |-> Take(sorted, MaxSuggestions)])

\* analyzeContentHierarchy: performContentAnalysis, then
\* generateCategorySuggestions with its sort
AnalyzeContentHierarchy ==
    \E analysis \in {performContentAnalysis(input)} :
      \E merged \in {generateCategorySuggestions(<<"s1">>, input, analysis)} :
        \E sorted \in SortOutcomes(merged) :
          AnalysisCall([op |-> "basic", pageTags |-> analysis.pageTags,
                        clusters |-> analysis.clusters, keywords |-> analysis.keywords,
                        merged |-> merged, suggestions |-> sorted])

NextAnalysis ==
    \/ IntelligentSuggestions
    \/ AnalyzeContentHierarchy

SpecAnalysis == InitAnalysis /\ [][NextAnalysis]_vars

\* the documents of the corpus in which a word occurs
DocsWith(word) == {i \in DOMAIN input : word \in Range(tokenize(input[i]))}

C23_IdenticalDocumentsSimilarityOne ==
    \A k \in DOMAIN calls :
        calls[k].op = "intelligent" =>
          \A i, j \in DOMAIN input :
              (i # j /\ input[i].words = input[j].words /\ input[i].words # <<>>)
                => IsOne(cosineSimilarity(calls[k].vectors[i], calls[k].vectors[j]))


\* C22: every cluster either strategy returns has at least two pages, and
\* every member but the seed (the first page) is more similar to the seed
\* than the threshold: more than 0.3 by shared tags in clusterContent, more
\* than 0.5 by the cosine of the TF-IDF vectors in performSemanticClustering.
C22_ClustersOverThreshold ==
    \A k \in DOMAIN calls :
      \A n \in DOMAIN calls[k].clusters :
        LET cluster == calls[k].clusters[n]
            seed == cluster.pages[1]
        IN  /\ Len(cluster.pages) >= 2
            /\ \A m \in 2..Len(cluster.pages) :
                 IF calls[k].op = "basic"
                 THEN ExceedsThreeTenths(
                        calculateSimilarity(extractKeywords(input[seed]),
                                            extractKeywords(input[cluster.pages[m]])))
                 ELSE ExceedsHalf(
                        cosineSimilarity(calls[k].vectors[seed],
                                         calls[k].vectors[cluster.pages[m]]))

\* both strategies ran on a corpus where each found a cluster and left a page
\* out of it
C22_Witness ==
    /\ Len(calls) = 2
    /\ \A k \in DOMAIN calls :
         /\ calls[k].clusters # <<>>
         /\ \E i \in DOMAIN input :
              \A n \in DOMAIN calls[k].clusters : i \notin Range(calls[k].clusters[n].pages)

TopKeywordsOf == [i \in DOMAIN input |-> extractTopKeywords(input[i])]
KeywordsOf == [i \in DOMAIN input |-> extractKeywords(input[i])]

\* C29 as stated: in both strategies the tags of a returned cluster are the
\* union of the keywords of its members, cut to at most 8.
C29_TagsAreUnion ==
    \A k \in DOMAIN calls :
      \A n \in DOMAIN calls[k].clusters :
        LET cluster == calls[k].clusters[n]
            keywordsOf == IF calls[k].op = "basic" THEN KeywordsOf ELSE TopKeywordsOf
        IN  /\ Len(cluster.commonTags) <= MaxClusterTags
            /\ Range(cluster.commonTags)
                 = Range(Take(Distinct(MemberKeywords(cluster.pages, keywordsOf)),
                              MaxClusterTags))

\* C29: the tags of a cluster of performSemanticClustering are the first 8
\* distinct top keywords of its members, in the order the members joined; the
\* tags of a cluster of clusterContent are the keywords that all its members
\* have (their intersection, not their union), without a cap.
C29_UnionOrIntersection ==
    \A k \in DOMAIN calls :
      \A n \in DOMAIN calls[k].clusters :
        LET cluster == calls[k].clusters[n]
        IN  IF calls[k].op = "basic"
            THEN Range(cluster.commonTags)
                   = {tag \in Words \cup Range(MemberKeywords(cluster.pages, KeywordsOf)) :
                        \A m \in Range(cluster.pages) : tag \in Range(KeywordsOf[m])}
            ELSE cluster.commonTags
                   = Take(Distinct(MemberKeywords(cluster.pages, TopKeywordsOf)),
                          MaxClusterTags)

\* a semantic cluster whose members have more than 8 top keywords between
\* them, and a cluster of clusterContent whose members differ in a keyword
C29_Witness ==
    /\ \E k \in DOMAIN calls :
         /\ calls[k].op = "intelligent"
         /\ \E n \in DOMAIN calls[k].clusters :
              Cardinality(Range(MemberKeywords(calls[k].clusters[n].pages, TopKeywordsOf)))
                > MaxClusterTags
    /\ \E k \in DOMAIN calls :
         /\ calls[k].op = "basic"
         /\ \E n \in DOMAIN calls[k].clusters :
              Range(MemberKeywords(calls[k].clusters[n].pages, KeywordsOf))
                # Range(calls[k].clusters[n].commonTags)

\* C24: every suggestion of the basic and of the enhanced generator has a
\* confidence that is a number from 0 to 1, whatever the corpus, and an empty
\* corpus gives an empty list of suggestions.
C24_ConfidenceInUnitInterval ==
    \A k \in DOMAIN calls :
      /\ \A n \in DOMAIN calls[k].suggestions :
           /\ ~calls[k].suggestions[n].confidence.nan
           /\ calls[k].suggestions[n].confidence.milli \in 0..1000
      /\ input = <<>> => calls[k].suggestions = <<>>

\* C25: the returned suggestions are in order of confidence, each at least
\* the next one; the enhanced generator returns at most ten, and none it
\* leaves out has a higher confidence than one it returns.
C25_SortedByConfidence ==
    \A k \in DOMAIN calls :
      LET returned == calls[k].suggestions
      IN  /\ \A n \in 1..(Len(returned) - 1) :
               /\ ~returned[n].confidence.nan
               /\ ~returned[n + 1].confidence.nan
               /\ returned[n].confidence.milli >= returned[n + 1].confidence.milli
          /\ calls[k].op = "intelligent" =>
               /\ Len(returned) <= MaxSuggestions
               /\ Len(returned) = Min(Len(calls[k].merged), MaxSuggestions)
               /\ \A n \in DOMAIN calls[k].merged :
                    calls[k].merged[n] \notin Range(returned) =>
                      \A h \in DOMAIN returned :
                        returned[h].confidence.milli >= calls[k].merged[n].confidence.milli

\* C26: in a full export of a space every page without a parent in the
\* exported set (no parent, or a parent that is not a page of the set) is
\* written at the root of the category, so every page of an acyclic set has a
\* file after a full sync in which nothing failed.
C26_EveryPageWritten ==
    \A r \in DOMAIN runs :
        CleanFullRun(runs[r]) =>
          \A i \in DOMAIN pages :
            LET slug == sanitizeFilename(TitleOr(pages[i]))
                leaf == IF HasChildren(pages, pages[i]) THEN <<slug, IndexMd>>
                        ELSE <<slug \o DotMd>>
            IN  /\ ~HasPage(pages, pages[i].parentPageId)
                     => (<<GuidesDir>> \o leaf) \in runs[r].written
                /\ \E path \in runs[r].written :
                     /\ Len(path) > Len(leaf)
                     /\ SubSeq(path, Len(path) - Len(leaf) + 1, Len(path)) = leaf

\* C27: exportChangedPagesToDocusaurus writes each changed page to the file a
\* full export of the space writes it to: below the directories of its
\* ancestors, and as <slug>/index.md when the page has children.
C27_SamePathAsFullExport ==
    \A k \in DOMAIN calls :
        calls[k].op = "exportChanged" /\ calls[k].success /\ calls[k].order # <<>> =>
          LET config == Val(getDocusaurusConfig(settings, "w1"))
              categoryPath ==
                  sanitizeFilename(FindMapping(config, calls[k].spaceId).categoryName)
          IN  calls[k].written
                = {FileOf(categoryPath, pages, FindPage(pages, id)) :
                      id \in Range(calls[k].order)}

\* a run that has read its configuration and chosen its mode
ModeChosen(run) == run.pc \in {"spaces", "hung"} \/ run.outcomes # <<>>

\* C28: a manual run is a full run and a run started by a timer is an
\* incremental one; lastSyncTime is null in every manual run and in every
\* run that starts with an empty sync history, and is otherwise the end time
\* of the newest stored result; with a null lastSyncTime every space of the
\* loop goes through the full space export; in a timer's run with a
\* lastSyncTime a space is skipped or has only pages exported whose
\* updatedAt is later than lastSyncTime.
C28_ModeSelection ==
    /\ [](\A r \in DOMAIN runs :
            LET run == runs[r]
            IN  /\ run.trigger = "manual" => ~run.incremental /\ IsNull(run.lastSyncTime)
                /\ run.trigger = "cron" => run.incremental
                /\ \A n \in DOMAIN run.outcomes :
                     IF IsNull(run.lastSyncTime)
                     THEN run.outcomes[n].mode = "full"
                     ELSE /\ run.outcomes[n].mode \in {"skipped", "changed"}
                          /\ run.outcomes[n].mode = "skipped"
                               => run.outcomes[n].exported = <<>>
                          /\ \A id \in Range(run.outcomes[n].exported) :
                               /\ FindPage(pages, id).spaceId = run.outcomes[n].space
                               /\ FindPage(pages, id).updatedAt > Val(run.lastSyncTime))
    /\ [][\A r \in DOMAIN runs' :
            r \notin DOMAIN runs /\ ModeChosen(runs'[r]) =>
              LET run == runs'[r]
                  history == settings[run.workspaceId].docusaurusSyncHistory
              IN  /\ history = <<>> => IsNull(run.lastSyncTime)
                  /\ IsNull(run.lastSyncTime) <=> (run.trigger = "manual" \/ history = <<>>)
                  /\ ~IsNull(run.lastSyncTime) =>
                       /\ \E h \in DOMAIN history :
                            history[h].endTime = Val(run.lastSyncTime)
                       /\ \A h \in DOMAIN history :
                            history[h].startTime
                              <= (CHOOSE x \in Range(history) :
                                    x.endTime = Val(run.lastSyncTime)).startTime]_vars

\* after a manual run was stored a page of a space was edited, and the
\* timer's run exported that page and left another page of the space alone
C28_Witness ==
    \E r1, r2 \in DOMAIN runs :
        /\ runs[r1].trigger = "manual" /\ runs[r1].outcomes # <<>>
        /\ runs[r2].trigger = "cron" /\ ~IsNull(runs[r2].lastSyncTime)
        /\ \E n \in DOMAIN runs[r2].outcomes :
             /\ runs[r2].outcomes[n].mode = "changed"
             /\ runs[r2].outcomes[n].exported # <<>>
             /\ \E i \in DOMAIN pages :
                  /\ pages[i].spaceId = runs[r2].outcomes[n].space
                  /\ pages[i].id \notin Range(runs[r2].outcomes[n].exported)

\* the results the settings of a workspace hold
StoredResults(w) ==
    Range(settings[w].docusaurusSyncHistory)
      \cup (IF IsNull(settings[w].lastSyncResult) THEN {}
            ELSE {Val(settings[w].lastSyncResult)})

\* C31: in every stored result of a run that passed the setup checks,
\* successfulSpaces + failedSpaces = totalSpaces = the number of mappings
\* of the configuration the run read, and there is one error per failed
\* space; in every stored result of a run whose setup checks threw, every
\* counter is 0 and errors holds exactly one message.
C31_StoredCountersAddUp ==
    \A w \in DOMAIN settings :
      \A result \in StoredResults(w) :
        LET run == runs[result.syncId]
            stats == result.stats
        IN  /\ result.syncId \in DOMAIN runs
            /\ PastSetup(run) =>
                  /\ stats.successfulSpaces + stats.failedSpaces = stats.totalSpaces
                  /\ stats.totalSpaces = Len(Val(run.config).spaceMappings)
                  /\ stats.totalSpaces = result.configSnapshot.spaceMappings
                  /\ Len(stats.errors) = stats.failedSpaces
            /\ ~PastSetup(run) =>
                  /\ stats.totalSpaces = 0 /\ stats.successfulSpaces = 0
                  /\ stats.failedSpaces = 0 /\ stats.totalPages = 0
                  /\ stats.successfulPages = 0 /\ stats.failedPages = 0
                  /\ Len(stats.errors) = 1

\* the settings hold the result of a run over two spaces of which one failed
C31_Witness ==
    \E w \in DOMAIN settings :
      \E result \in StoredResults(w) :
        /\ PastSetup(runs[result.syncId])
        /\ result.stats.totalSpaces = 2 /\ result.stats.failedSpaces = 1
        /\ result.stats.successfulSpaces = 1 /\ Len(result.stats.errors) = 1

\* ---------------------------------------------------------------------------
\* updateDocusaurusConfig step by step, next to a sync run: each await of the
\* method is a point where another request or a run can take its turn.
\* ---------------------------------------------------------------------------

MaxUpdates == 2       \* calls of updateDocusaurusConfig in one behaviour
MaxRaceRuns == 1      \* sync runs next to them

\* the configurations submitted: hourly, daily, auto-sync off, and one whose
\* site path does not exist
RaceConfigs ==
    { Config(TRUE, "/site", TRUE, "hourly", <<M1>>),
      Config(TRUE, "/site", TRUE, "daily", <<M1>>),
      Config(TRUE, "/site", FALSE, "manual", <<M1>>),
      Config(TRUE, "/gone", TRUE, "daily", <<M1>>) }

InitRace ==
    /\ settings \in [Workspaces ->
          {[EmptySettings EXCEPT !.docusaurusConfig = Some(c)] :
              c \in {c \in RaceConfigs : SiteExists(c.sitePath)}}]
    /\ jobs = {}
    /\ initialized = FALSE
    /\ pages = TreeTable
    /\ fs = EmptyFs
    /\ clock = 1
    /\ runs = <<>>
    /\ edits = [pages |-> 0, files |-> 0, configs |-> 0]
    /\ hSettings = <<>> /\ hLog = <<>>
    /\ xPc = "off" /\ xPage = NoPage /\ xCurrent = NoPage
    /\ xSegments = <<>> /\ xIters = 0 /\ xOut = Null
    /\ input = <<>> /\ calls = <<>>

\* updateDocusaurusConfig is called: access(config.sitePath), and the
\* BadRequestException when the path does not exist
BeginUpdate(workspaceId, c) ==
    /\ initialized
    /\ Len(calls) < MaxUpdates
    /\ calls' = Append(calls,
          [op |-> "updateDocusaurusConfig", workspaceId |-> workspaceId, config |-> c,
           pc |-> IF c.sitePath # "" /\ ~SiteExists(c.sitePath) THEN "rejected" ELSE "read",
           currentSettings |-> Null])
    /\ UNCHANGED <<syncVars, histVars, exportVars, input>>

\* workspaceService.findById: the settings the call will write back
ReadSettings(k) ==
    /\ k \in DOMAIN calls /\ calls[k].pc = "read"
    /\ calls' = [calls EXCEPT ![k].pc = "write",
                              ![k].currentSettings = Some(settings[calls[k].workspaceId])]
    /\ UNCHANGED <<syncVars, histVars, exportVars, input>>

\* workspaceService.update with { ...currentSettings, docusaurusConfig: config }
WriteSettings(k) ==
    /\ k \in DOMAIN calls /\ calls[k].pc = "write"
    /\ settings' = [settings EXCEPT ![calls[k].workspaceId] =
          [Val(calls[k].currentSettings) EXCEPT !.docusaurusConfig = Some(calls[k].config)]]
    /\ calls' = [calls EXCEPT ![k].pc = "timer"]
    /\ UNCHANGED <<jobs, initialized, pages, fs, clock, runs, edits>>
    /\ UNCHANGED <<histVars, exportVars, input>>

\* updateScheduledSync(workspaceId, config), and the call returns
UpdateTimer(k) ==
    /\ k \in DOMAIN calls /\ calls[k].pc = "timer"
    /\ jobs' = updateScheduledSync(jobs, calls[k].workspaceId, calls[k].config)
    /\ calls' = [calls EXCEPT ![k].pc = "done"]
    /\ UNCHANGED <<settings, initialized, pages, fs, clock, runs, edits>>
    /\ UNCHANGED <<histVars, exportVars, input>>

RaceManualSync(workspaceId) == Len(runs) < MaxRaceRuns /\ TriggerManualSync(workspaceId)

NextRace ==
    \/ OnModuleInit
    \/ \E w \in Workspaces, c \in RaceConfigs : BeginUpdate(w, c)
    \/ \E k \in 1..MaxUpdates : ReadSettings(k)
    \/ \E k \in 1..MaxUpdates : WriteSettings(k)
    \/ \E k \in 1..MaxUpdates : UpdateTimer(k)
    \/ \E w \in Workspaces : RaceManualSync(w)
    \/ \E r \in 1..MaxRaceRuns : SyncSpace(r)
    \/ \E r \in 1..MaxRaceRuns : FinishSync(r)
    \/ \E r \in 1..MaxRaceRuns : StoreWrite(r)

SpecRace == InitRace /\ [][NextRace]_vars

\* the calls whose write of the settings has happened
Written == {k \in DOMAIN calls : calls[k].pc \in {"timer", "done"}}

\* every call and every run has returned
Quiet ==
    /\ \A k \in DOMAIN calls : calls[k].pc \in {"done", "rejected"}
    /\ \A r \in DOMAIN runs : runs[r].pc = "done"

\* the timer of the workspace is the one its persisted configuration asks for
TimerAgrees(w) ==
    LET config == getDocusaurusConfig(settings, w)
    IN  /\ HasJob(jobs, w) <=> (~IsNull(config) /\ WantsTimer(Val(config)))
        /\ \A job \in JobsOf(w) : job.interval = Val(config).autoSync.interval

\* C32: once a call of updateDocusaurusConfig has written its configuration,
\* the persisted configuration is one that such a call wrote (the history
\* write of a run does not bring an older one back), and when one call and
\* a run have both returned the timer agrees with the persisted
\* configuration.
C32_ConfigNotReverted ==
    \A w \in Workspaces :
      /\ (\E k \in Written : calls[k].workspaceId = w)
            => \E k \in Written :
                 /\ calls[k].workspaceId = w
                 /\ getDocusaurusConfig(settings, w) = Some(calls[k].config)
      /\ (Quiet /\ Len(calls) = 1 /\ Written # {} /\ runs # <<>>) => TimerAgrees(w)

\* C33: when the calls of updateDocusaurusConfig for a workspace have all
\* returned (and no run wrote in between), the workspace has exactly the
\* timer the persisted configuration asks for.
C33_TimerOfLastWrite ==
    \A w \in Workspaces :
      (Quiet /\ runs = <<>> /\ (\E k \in Written : calls[k].workspaceId = w))
        => TimerAgrees(w)

\* C34: no modification is lost between runs.  For a run and the next run
\* of the workspace, incremental and successful with no failed page: a page
\* whose updatedAt the later run finds changed since the earlier run handled
\* the page's space is among the pages the later run exports.
C34_NoModificationLost ==
    \A r1, r2 \in DOMAIN runs :
      (/\ r2 = r1 + 1
       /\ runs[r1].workspaceId = runs[r2].workspaceId
       /\ runs[r2].incremental /\ ~IsNull(runs[r2].lastSyncTime)
       /\ Finished(runs[r2]) /\ ~IsNull(runs[r2].result)
       /\ Val(runs[r2].result).status = "success" /\ runs[r2].failed = {})
      => \A n \in DOMAIN runs[r1].outcomes, m \in DOMAIN runs[r2].outcomes :
           runs[r1].outcomes[n].space = runs[r2].outcomes[m].space
           => \A before \in runs[r1].outcomes[n].seen, after \in runs[r2].outcomes[m].seen :
                (before[1] = after[1] /\ before[2] < after[2])
                  => before[1] \in Range(runs[r2].outcomes[m].exported)

\* C35: in one export run no two pages are written to the same file: the
\* run has written as many files as it has exported pages.
C35_OneFilePerPage ==
    \A r \in DOMAIN runs :
        (Len(runs[r].outcomes) = 1 /\ runs[r].outcomes[1].success)
          => Cardinality(runs[r].written) = Len(runs[r].outcomes[1].exported)

\* the full exports of the runs: what exportPagesHierarchically returned
FullExports ==
    UNION {{runs[r].outcomes[i] : i \in {j \in DOMAIN runs[r].outcomes :
               runs[r].outcomes[j].mode = "full" /\ runs[r].outcomes[j].success}} :
           r \in DOMAIN runs}

\* C36: in one hierarchical export every page id is written at most once, and
\* the count returned is the number of page ids added to the manifest.
C36_CountIsManifestSize ==
    \A o \in FullExports :
        /\ \A i, j \in DOMAIN o.exported : o.exported[i] = o.exported[j] => i = j
        /\ Range(o.exported) = o.exportedPages
        /\ o.exportedCount = Cardinality(o.exportedPages)

\* a full export that wrote a page with its child and passed over a failing page
C36_Witness ==
    \E r \in DOMAIN runs :
        /\ runs[r].failed # {}
        /\ \E o \in FullExports : o.exportedCount = 3 /\ o.space = "s1"
        /\ Len(runs[r].outcomes) = 1 /\ runs[r].outcomes[1].exportedCount = 3
        /\ \E i \in DOMAIN pages :
              pages[i].id \in runs[r].outcomes[1].exportedPages /\ pages[i].parentPageId # NoPage

\* C37: an incremental export of a space in which every changed page failed
\* to export is a failed export of that space.
C37_NothingExportedFails ==
    \A r \in DOMAIN runs : \A i \in DOMAIN runs[r].outcomes :
        LET o == runs[r].outcomes[i]
        IN  (/\ o.mode = "changed"
             /\ o.exported = <<>>
             /\ \E k \in DOMAIN pages :
                   pages[k].spaceId = o.space /\ pages[k].id \in runs[r].failed)
              => ~o.success

-----------------------------------------------------------------------------
(* The export of one page: exportContentToDocusaurus with contentType 'page' *)

MaxPageExports == 2   \* page exports in one behaviour

\* exportPageWithHierarchy: the page itself, then its descendants; every throw
\* is caught and the count so far returned
exportPageWithHierarchy(categoryPath, allPages, rootPage, basePath, st, env) ==
    IF rootPage.id \in st.exportedPages THEN st
    ELSE
      LET called == [st EXCEPT !.renders = @ + 1]
          processed == processContentReferences(Render(rootPage), rootPage, allPages,
                                                categoryPath)
          hasChildren == HasChildren(allPages, rootPage)
          pageDir == sanitizeFilename(TitleOr(rootPage))
          hierarchyPath == IF hasChildren THEN PathJoin(basePath, pageDir) ELSE basePath
          fullPath == JoinAll(<<>>, <<categoryPath>> \o hierarchyPath)
          filename == IF hasChildren THEN IndexMd ELSE pageDir \o DotMd
          filePath == Append(fullPath, filename)
          wrote == [called EXCEPT
                      !.tree = WriteFile(EnsureDirectory(@, fullPath), filePath,
                                         processed.content, env.now),
                      !.written = @ \cup {filePath},
                      !.exportedPages = @ \cup {rootPage.id},
                      !.exportedCount = @ + 1,
                      !.order = Append(@, rootPage.id)]
      IN  IF rootPage.id \in env.fail
          THEN [called EXCEPT !.failed = @ \cup {rootPage.id}]
          ELSE IF processed.diverges THEN [called EXCEPT !.hung = TRUE]
          ELSE IF hasChildren
          THEN exportPagesHierarchically(categoryPath, allPages, rootPage.id,
                                         hierarchyPath, wrote, <<rootPage.id>>, env)
          ELSE wrote

\* a throw of the page export, as exportContentToDocusaurus reports it
FailedPage(message, tree) == Failed(message, tree) @@ [filePath |-> Null]

\* exportPageToDocusaurus: [success, message, filePath, out]
exportPageToDocusaurus(pageId, c, includeChildren, table, tree, env) ==
    IF ~HasPage(table, pageId) THEN FailedPage("Page not found", tree)
    ELSE
      LET page == FindPage(table, pageId)
      IN  IF ~HasMapping(c, page.spaceId)
          THEN FailedPage("No Docusaurus mapping found for space", tree)
          ELSE IF page.spaceId \notin SpacesTable THEN FailedPage("Space not found", tree)
          ELSE
            LET spaceMapping == FindMapping(c, page.spaceId)
                categoryPath == sanitizeFilename(spaceMapping.categoryName)
                madeDir == EnsureDirectory(tree, JoinAll(<<>>, <<categoryPath>>))
                start == NewExport(WriteCategory(tree, spaceMapping, env))
                allSpacePages == PagesOfSpace(table, page.spaceId)
                hierarchyPath == buildPageHierarchyPath(page, allSpacePages)
                filename == sanitizeFilename(TitleOr(page)) \o DotMd
                fullPath == JoinAll(<<>>, <<categoryPath>> \o hierarchyPath.segments)
                finalFilePath == Append(fullPath, filename)
                done(out) == [success |-> TRUE,
                              message |-> "Page exported successfully",
                              filePath |-> Some(finalFilePath), out |-> out]
            IN  IF env.failCategory THEN FailedPage("EACCES", madeDir)
                ELSE IF includeChildren
                THEN IF hierarchyPath.diverges
                     THEN done([start EXCEPT !.hung = TRUE])
                     ELSE done(exportPageWithHierarchy(categoryPath, allSpacePages, page,
                                                       hierarchyPath.segments, start, env))
                ELSE IF page.id \in env.fail
                THEN FailedPage("Export failed", start.tree)
                ELSE IF hierarchyPath.diverges
                THEN done([start EXCEPT !.hung = TRUE])
                ELSE done([start EXCEPT
                             !.renders = @ + 1,
                             !.tree = WriteFile(EnsureDirectory(@, fullPath), finalFilePath,
                                                [text |-> Render(page), links |-> {}],
                                                env.now),
                             !.written = @ \cup {finalFilePath},
                             !.order = Append(@, page.id)])

\* exportContentToDocusaurus with contentType 'page': every throw becomes a result
exportPageContentToDocusaurus(s, workspaceId, pageId, includeChildren, table, tree, env) ==
    LET config == getDocusaurusConfig(s, workspaceId)
    IN  IF IsNull(config) \/ ~Val(config).enabled
        THEN FailedPage("Docusaurus integration is not enabled", tree)
        ELSE IF validateDocusaurusSetup(s, workspaceId) # <<>>
        THEN FailedPage("Docusaurus setup is invalid", tree)
        ELSE exportPageToDocusaurus(pageId, Val(config), includeChildren, table, tree, env)

\* the pageId arguments of a call: the pages of the table and one that is gone
PageArgs == {pages[i].id : i \in DOMAIN pages} \cup {"p9"}

InitPage ==
    /\ settings \in [Workspaces ->
          {[EmptySettings EXCEPT !.docusaurusConfig = c] :
              c \in {Null, Some(Config(TRUE, "/site", TRUE, "hourly", <<M1>>)),
                     Some(Config(FALSE, "/site", FALSE, "manual", <<M1>>))}}]
    /\ pages \in ForestTables \cup OrphanTables \cup TwinTables
    /\ fs = EmptyFs
    /\ clock = 1
    /\ calls = <<>> /\ input = <<>>
    /\ jobs = {}
    /\ initialized = FALSE
    /\ runs = <<>>
    /\ edits = [pages |-> 0, files |-> 0, configs |-> 0]
    /\ hSettings = <<>> /\ hLog = <<>>
    /\ xPc = "off" /\ xPage = NoPage /\ xCurrent = NoPage
    /\ xSegments = <<>> /\ xIters = 0 /\ xOut = Null

\* exportContentToDocusaurus(workspaceId, pageId, 'page', { includeChildren })
ExportPage(workspaceId, pageId, includeChildren) ==
    /\ Len(calls) < MaxPageExports
    /\ \E env \in Envs(pages, "s1", clock) :
         \E pageResult \in {exportPageContentToDocusaurus(settings, workspaceId, pageId,
                                includeChildren, pages, fs, env)} :
            /\ ~pageResult.out.hung
            /\ fs' = pageResult.out.tree
            /\ calls' = Append(calls,
                  [op |-> "exportPage", pageId |-> pageId,
                   includeChildren |-> includeChildren, env |-> env,
                   before |-> fs, after |-> pageResult.out.tree,
                   success |-> pageResult.success, message |-> pageResult.message,
                   filePath |-> pageResult.filePath,
                   order |-> pageResult.out.order, failed |-> pageResult.out.failed,
                   written |-> pageResult.out.written])
    /\ clock' = clock + 1
    /\ UNCHANGED <<settings, jobs, initialized, pages, runs, edits, input>>
    /\ UNCHANGED <<histVars, exportVars>>

NextPage ==
    \E w \in Workspaces, pageId \in PageArgs, includeChildren \in BOOLEAN :
        ExportPage(w, pageId, includeChildren)

SpecPage == InitPage /\ [][NextPage]_vars

\* C38: the filePath of a successful single-page export is the path of the
\* file that was written for that page, with the page's rendered content.
C38_FilePathIsWrittenFile ==
    \A k \in DOMAIN calls :
        (calls[k].op = "exportPage" /\ calls[k].success)
          => LET filePath == Val(calls[k].filePath)
             IN  /\ filePath \in calls[k].written
                 /\ FileExists(calls[k].after, filePath)
                 /\ calls[k].after.files[filePath].content.text.page = calls[k].pageId

\* the site directory of the configuration is named and is not there
SiteMissing(c) == c.sitePath # "" /\ ~SiteExists(c.sitePath)

\* C39: a call of updateDocusaurusConfig whose sitePath is not empty and does
\* not exist is rejected and changes neither the persisted settings nor the
\* timers; so is updateSpaceMapping on a persisted configuration of that kind.
C39_RejectedUpdateHasNoEffect ==
    [][(edits'.configs = edits.configs + 1) =>
          LET call == calls'[1]
              config == getDocusaurusConfig(settings, call.workspaceId)
          IN  /\ (call.op = "updateDocusaurusConfig" /\ SiteMissing(call.config))
                    => (~call.ok /\ settings' = settings /\ jobs' = jobs)
              /\ (call.op = "updateSpaceMapping" /\ ~IsNull(config) /\ SiteMissing(Val(config)))
                    => (~call.ok /\ settings' = settings /\ jobs' = jobs)]_vars

\* a rejected update that asked for no timer, with the workspace's hourly
\* timer and hourly configuration still in place
C39_Witness ==
    /\ calls # <<>> /\ LastCall.op = "updateDocusaurusConfig" /\ ~LastCall.ok
    /\ SiteMissing(LastCall.config) /\ ~WantsTimer(LastCall.config)
    /\ \E job \in JobsOf(LastCall.workspaceId) : job.interval = "hourly"
    /\ ~IsNull(getDocusaurusConfig(settings, LastCall.workspaceId))
    /\ WantsTimer(Val(getDocusaurusConfig(settings, LastCall.workspaceId)))

-----------------------------------------------------------------------------
(* The batch-publish dialog of the client and the export endpoint behind it *)

MaxBatches == 2       \* batches started in one behaviour

\* the items the dialog is opened with: a page, its space, and a space that
\* has no mapping
BatchItems ==
    << [id |-> "p1", type |-> "page"], [id |-> "s1", type |-> "space"],
       [id |-> "s2", type |-> "space"] >>

\* useState: every item unselected and pending, nothing publishing
NewBatchState ==
    [opened |-> TRUE,
     batchItems |-> [k \in DOMAIN BatchItems |->
                       BatchItems[k] @@ [selected |-> FALSE, status |-> "pending"]],
     isPublishing |-> FALSE, completedCount |-> 0,
     selected |-> <<>>, i |-> 1, awaiting |-> FALSE, batches |-> 0]

\* batchItems.filter(item => item.selected), as ids
selectedItems(batch) ==
    LET chosen == SelectSeq(batch.batchItems, LAMBDA item : item.selected)
    IN  [k \in DOMAIN chosen |-> chosen[k].id]

canPublish(batch) == Len(selectedItems(batch)) > 0 /\ ~batch.isPublishing

\* updateItemStatus
updateItemStatus(batch, itemId, status) ==
    [batch EXCEPT !.batchItems =
        [k \in DOMAIN @ |-> IF @[k].id = itemId THEN [@[k] EXCEPT !.status = status] ELSE @[k]]]

\* resetBatch
resetBatch(batch) ==
    [batch EXCEPT !.batchItems = [k \in DOMAIN @ |-> [@[k] EXCEPT !.status = "pending"]],
                  !.completedCount = 0, !.isPublishing = FALSE]

InitBatch ==
    /\ settings \in [Workspaces ->
          {[EmptySettings EXCEPT !.docusaurusConfig = c] :
              c \in {Null, Some(Config(TRUE, "/site", TRUE, "hourly", <<M1>>))}}]
    /\ pages = TreeTable
    /\ fs = EmptyFs
    /\ clock = 1
    /\ input = NewBatchState
    /\ calls = <<>>
    /\ jobs = {}
    /\ initialized = FALSE
    /\ runs = <<>>
    /\ edits = [pages |-> 0, files |-> 0, configs |-> 0]
    /\ hSettings = <<>> /\ hLog = <<>>
    /\ xPc = "off" /\ xPage = NoPage /\ xCurrent = NoPage
    /\ xSegments = <<>> /\ xIters = 0 /\ xOut = Null

BatchFrame ==
    /\ UNCHANGED <<settings, jobs, initialized, pages, runs, edits>>
    /\ UNCHANGED <<histVars, exportVars>>

\* the checkbox of an item (disabled while publishing)
ToggleItemSelection(k) ==
    /\ input.opened /\ ~input.isPublishing
    /\ input' = [input EXCEPT !.batchItems[k].selected = ~@]
    /\ UNCHANGED <<fs, clock, calls>> /\ BatchFrame

\* the select-all checkbox (disabled while publishing)
ToggleSelectAll ==
    /\ input.opened /\ ~input.isPublishing
    /\ LET allSelected == \A k \in DOMAIN input.batchItems : input.batchItems[k].selected
       IN  input' = [input EXCEPT !.batchItems =
                        [k \in DOMAIN @ |-> [@[k] EXCEPT !.selected = ~allSelected]]]
    /\ UNCHANGED <<fs, clock, calls>> /\ BatchFrame

\* startBatchPublish up to the loop
StartBatchPublish ==
    /\ input.opened /\ input.batches < MaxBatches
    /\ canPublish(input)
    /\ input' = [input EXCEPT !.isPublishing = TRUE, !.completedCount = 0,
                              !.selected = selectedItems(input), !.i = 1,
                              !.batches = @ + 1]
    /\ UNCHANGED <<fs, clock, calls>> /\ BatchFrame

\* the loop of startBatchPublish: the item is marked and the request sent
PublishItem ==
    /\ input.isPublishing /\ ~input.awaiting
    /\ input.i <= Len(input.selected)
    /\ input' = [updateItemStatus(input, input.selected[input.i], "publishing")
                    EXCEPT !.awaiting = TRUE]
    /\ UNCHANGED <<fs, clock, calls>> /\ BatchFrame

\* POST docusaurus/export answers 200 with what exportContentToDocusaurus
\* returned; mutateAsync resolves and the item is marked completed
ExportResolves(workspaceId) ==
    /\ input.isPublishing /\ input.awaiting
    /\ LET contentId == input.selected[input.i]
           item == CHOOSE x \in Range(input.batchItems) : x.id = contentId
           spaceId == IF item.type = "space" THEN contentId
                      ELSE FindPage(pages, contentId).spaceId
       IN  \E env \in Envs(pages, spaceId, clock) :
            \E result \in {IF item.type = "page"
                            THEN exportPageContentToDocusaurus(settings, workspaceId,
                                     contentId, TRUE, pages, fs, env)
                            ELSE exportContentToDocusaurus(settings, workspaceId,
                                     contentId, pages, fs, env)} :
               /\ ~result.out.hung
               /\ fs' = result.out.tree
               /\ calls' = Append(calls, [op |-> "export", contentId |-> contentId,
                                          contentType |-> item.type,
                                          success |-> result.success,
                                          message |-> result.message])
               /\ input' = [updateItemStatus(input, contentId, "completed")
                               EXCEPT !.completedCount = @ + 1, !.awaiting = FALSE,
                                      !.i = @ + 1]
    /\ clock' = clock + 1
    /\ BatchFrame

\* the request fails (ForbiddenException, the network): mutateAsync throws
ExportRejects ==
    /\ input.isPublishing /\ input.awaiting
    /\ input' = [updateItemStatus(input, input.selected[input.i], "failed")
                    EXCEPT !.awaiting = FALSE, !.i = @ + 1]
    /\ UNCHANGED <<fs, clock, calls>> /\ BatchFrame

\* startBatchPublish after the loop
FinishBatch ==
    /\ input.isPublishing /\ ~input.awaiting
    /\ input.i > Len(input.selected)
    /\ input' = [input EXCEPT !.isPublishing = FALSE]
    /\ UNCHANGED <<fs, clock, calls>> /\ BatchFrame

\* the Reset button (shown when something completed and nothing is publishing)
ResetBatch ==
    /\ input.opened /\ input.completedCount > 0 /\ ~input.isPublishing
    /\ input' = resetBatch(input)
    /\ UNCHANGED <<fs, clock, calls>> /\ BatchFrame

\* handleClose: nothing while publishing, else reset and close
HandleClose ==
    /\ input.opened
    /\ input' = IF input.isPublishing THEN input
                ELSE [resetBatch(input) EXCEPT !.opened = FALSE]
    /\ UNCHANGED <<fs, clock, calls>> /\ BatchFrame

\* the button that opens the dialog
OpenModal ==
    /\ ~input.opened
    /\ input' = [input EXCEPT !.opened = TRUE]
    /\ UNCHANGED <<fs, clock, calls>> /\ BatchFrame

NextBatch ==
    \/ \E k \in DOMAIN BatchItems : ToggleItemSelection(k)
    \/ ToggleSelectAll
    \/ StartBatchPublish
    \/ PublishItem
    \/ \E w \in Workspaces : ExportResolves(w)
    \/ ExportRejects
    \/ FinishBatch
    \/ ResetBatch
    \/ HandleClose
    \/ OpenModal

SpecBatch == InitBatch /\ [][NextBatch]_vars

\* C40: an item of the dialog shows 'completed' only if the export the
\* server made for it last returned success=true.
C40_CompletedMeansExported ==
    \A k \in DOMAIN input.batchItems :
        input.batchItems[k].status = "completed"
          => \E c \in DOMAIN calls :
                /\ calls[c].contentId = input.batchItems[k].id
                /\ calls[c].success
                /\ \A d \in (c + 1)..Len(calls) : calls[d].contentId # calls[c].contentId
=============================================================================
